---- MODULE Spec2Model ----
(***************************************************************************)
(* A model of https-everywhere-lib-core: the RuleSets index, the Rewriter  *)
(* decision engine and the Updater's perform_check.                        *)
(*                                                                         *)
(* Representation.  A URL is a record of its components; the record is the *)
(* URL's serialisation (Url::as_str), so two URLs are the same string iff  *)
(* they are the same record.  A host is the sequence of its labels, i.e.   *)
(* the host string split at '.', so "a.b." is <<"a","b","">> and "." is    *)
(* <<"","">>.  A regular expression is a record naming the URLs it         *)
(* matches.  Option<T> is a sequence of length at most one.                *)
(***************************************************************************)
EXTENDS Integers, Sequences, FiniteSets, TLC

VARIABLES
    rulesets,          \* RuleSets.0: BTreeMap target -> Vec<Arc<RuleSet>>
    storage,           \* the Storage behind Settings and Updater
    rewrite_count,     \* Rewriter.rewrite_count
    rewrite_history,   \* Rewriter.rewrite_history, front first
    cookie_host_safety_cache, \* Rewriter.cookie_host_safety_cache, most recent first
    blooms,            \* Updater.blooms
    updater,           \* Updater: update_channels, default_rulesets
    last,              \* history variable: the latest operation and what it returned
    log,               \* history variable: every call that reached record_history
    tick,              \* history variable: the latest perform_check
    threads            \* the Mutex of the RuleSets and the updater thread

rewriter_vars == <<rewrite_count, rewrite_history, cookie_host_safety_cache, log>>
updater_vars == <<blooms, updater, tick, threads>>
vars ==
    <<rulesets, storage, rewrite_count, rewrite_history, cookie_host_safety_cache,
      blooms, updater, last, log, tick, threads>>

None == <<>>
Some(x) == <<x>>

(***************************************************************************)
(* Bounds of the model.                                                    *)
(***************************************************************************)
MaxCalls == 1
MaxIndexEntries == 2
MaxLoopCalls == 16
MaxEaseCalls == 9
MaxSettingsCalls == 3
MaxCookieUrlCalls == 2
MaxLookupIndexEntries == 2
MaxCapCalls == 17
MaxMixedCalls == 1
MaxCapDomains == 252
MaxConcurrentCalls == 2
MaxIngestEntries == 2
MaxSettingsWrites == 2
MaxTimerTicks == 2
MaxCookieIndexEntries == 2
MaxTicks == 2
MaxTimestamp == 2

(***************************************************************************)
(* Strings.                                                                *)
(***************************************************************************)
StrLen(s) ==
    CASE s = "" -> 0
      [] s = "*" -> 1
      [] s \in {"0", "1"} -> 1
      [] s = "127" -> 3
      [] s = "com" -> 3
      [] s = "www" -> 3
      [] s = "foo" -> 3
      [] s = "maps" -> 4
      [] s = "chart" -> 5
      [] s = "onion" -> 5
      [] s = "[::1]" -> 5
      [] s = "example" -> 7
      [] s = "gstatic" -> 7
      [] s = "localhost" -> 9
      [] s = "googleapis" -> 10
      [] s = "fake-example" -> 12
      [] s = "freerangekitten" -> 15

RECURSIVE HostLen(_)
HostLen(host) ==
    IF Len(host) = 1 THEN StrLen(host[1])
    ELSE StrLen(host[1]) + 1 + HostLen(Tail(host))

\* host.find("..").is_some(): two adjacent dots, i.e. an empty inner label
HasDotDot(host) == \E i \in 2..(Len(host) - 1) : host[i] = ""

\* [0-9]{1,3}
IsDigits1to3(s) == s \in {"0", "1", "127"}

(***************************************************************************)
(* URLs and hosts.                                                         *)
(***************************************************************************)
KittenHost == <<"freerangekitten", "com">>
FakeHost == <<"fake-example", "com">>
WwwFakeHost == <<"www", "fake-example", "com">>
OnionHost == <<"fake-example", "onion">>
OnionDotsHost == <<"fake-example", "onion", "", "", "", "">>
ChartHost == <<"chart", "googleapis", "com">>
MapsGstaticHost == <<"maps", "gstatic", "com">>
ExampleHost == <<"example", "com">>
GoogleApisTarget == <<"*", "googleapis", "com">>
ExemptHosts ==
    {<<"localhost">>, <<"foo", "localhost">>, <<"127", "0", "0", "1">>,
     <<"0", "0", "0", "0">>, <<"[::1]">>}


Url(scheme, username, password, host, path) ==
    [scheme |-> scheme, username |-> username, password |-> password,
     host |-> host, path |-> path]

\* a URL without userinfo
PlainUrl(scheme, host, path) == Url(scheme, "", None, Some(host), path)

\* What the host hands to rewrite_url: a string that Url::parse accepts
\* (valid, with the URL it parses to) or rejects.
ValidInput(url) == [valid |-> TRUE, url |-> Some(url)]
InvalidInput == [valid |-> FALSE, url |-> None]

\* a parser that takes a string it should reject for a URL without a host
Url_parse_lenient(input) ==
    IF input.valid THEN input.url ELSE Some(Url("data", "", None, None, "/"))

\* Url::parse(url)?: Ok(url) or Err
Url_parse(input) == IF input.valid THEN input.url ELSE None

KittenUrl == PlainUrl("http", KittenHost, "/")
FakeUrl == PlainUrl("http", FakeHost, "/")
ChartRootUrl == PlainUrl("http", ChartHost, "/")
Chart123Url == PlainUrl("http", ChartHost, "/123")
ChartCredUrl == Url("http", "eff", Some("techprojects"), Some(ChartHost), "/123")
KittenUserUrl == Url("http", "eff", None, Some(KittenHost), "/")
NoHostUrl == Url("data", "", None, None, "/")

UrlInputs ==
    {ValidInput(KittenUrl), ValidInput(FakeUrl),
     ValidInput(PlainUrl("http", OnionHost, "/")),
     ValidInput(PlainUrl("http", OnionDotsHost, "/")),
     ValidInput(ChartRootUrl), ValidInput(Chart123Url), ValidInput(ChartCredUrl),
     ValidInput(KittenUserUrl),
     ValidInput(PlainUrl("https", ChartHost, "/123")),
     ValidInput(PlainUrl("ftp", FakeHost, "/")),
     ValidInput(NoHostUrl), InvalidInput}
        \cup {ValidInput(PlainUrl("http", h, "/")) : h \in ExemptHosts}

LoopInputs == {ValidInput(KittenUrl), ValidInput(FakeUrl), InvalidInput}
EaseInputs ==
    {ValidInput(FakeUrl), ValidInput(PlainUrl("http", OnionDotsHost, "/")),
     ValidInput(PlainUrl("https", ChartHost, "/"))}

(***************************************************************************)
(* Regular expressions.  A pattern names the URLs whose text it matches:   *)
(* the schemes and paths it accepts, the hosts it accepts, and whether the *)
(* host must follow "://" directly (so that userinfo defeats the match);   *)
(* a pattern that does not constrain a component has the empty set there.  *)
(* A replacement gives the new scheme and the new host (None: the host is  *)
(* kept, as with a backreference).                                         *)
(***************************************************************************)
AnyScheme == {}
AnyHost == {}
AnyPath == {}
Pattern(schemes, host_anchored, hosts, paths) ==
    [schemes |-> schemes, host_anchored |-> host_anchored, hosts |-> hosts,
     paths |-> paths]
Replacement(scheme, host) == [scheme |-> scheme, host |-> host]

\* Regex::is_match on the URL text
is_match(re, url) ==
    /\ re.schemes = AnyScheme \/ url.scheme \in re.schemes
    /\ re.paths = AnyPath \/ url.path \in re.paths
    /\ \/ re.hosts = AnyHost /\ ~re.host_anchored
       \/ url.host # None /\ url.host[1] \in re.hosts
    /\ re.host_anchored => (url.username = "" /\ url.password = None)

\* Regex::replace_all on the URL text
replace_all(re, url, to) ==
    IF is_match(re, url)
    THEN [url EXCEPT !.scheme = to.scheme,
                     !.host = IF to.host = None THEN @ ELSE to.host]
    ELSE url

\* str::starts_with("<scheme>:") on the URL text
starts_with_scheme(url, scheme) == url.scheme = scheme

\* r"^http:" and "https:"
TRIVIAL_REGEX == Pattern({"http"}, FALSE, AnyHost, AnyPath)
TRIVIAL_TO == Replacement("https", None)

(***************************************************************************)
(* Rule, RuleSet.                                                          *)
(***************************************************************************)
Trivial == [kind |-> "Trivial", from |-> None, to |-> None]
NonTrivial(from_regex, to) ==
    [kind |-> "NonTrivial", from |-> Some(from_regex), to |-> Some(to)]

\* a constructor that looks at the expression alone
Rule_new_by_from(from_regex, to) ==
    IF from_regex = TRIVIAL_REGEX
    THEN Trivial
    ELSE NonTrivial(from_regex, to)

Rule_new(from_regex, to) ==
    IF from_regex = TRIVIAL_REGEX /\ to = TRIVIAL_TO
    THEN Trivial
    ELSE NonTrivial(from_regex, to)

RuleSet_new(name, scope) ==
    [name |-> name, rules |-> <<>>, exclusions |-> None, cookierules |-> None,
     active |-> TRUE, default_state |-> TRUE, scope |-> scope, note |-> None]

\* the exclusions joined by "|": an alternation, and the empty regex when
\* there is none, which matches every text
exclusions_match(exclusions, url) ==
    \/ exclusions = <<>>
    \/ \E i \in DOMAIN exclusions : is_match(exclusions[i], url)

RECURSIVE apply_rules(_, _, _)
apply_rules(rules, i, url) ==
    IF i > Len(rules) THEN None
    ELSE IF rules[i].kind = "Trivial"
    THEN Some(replace_all(TRIVIAL_REGEX, url, TRIVIAL_TO))
    ELSE LET returl == replace_all(rules[i].from[1], url, rules[i].to[1])
         IN  IF returl # url THEN Some(returl)
             ELSE apply_rules(rules, i + 1, url)

\* apply without the exclusion test
apply_ignoring_exclusions(ruleset, url) == apply_rules(ruleset.rules, 1, url)

\* RuleSet::apply
apply(ruleset, url) ==
    IF ruleset.exclusions # None /\ exclusions_match(ruleset.exclusions[1], url)
    THEN None
    ELSE apply_rules(ruleset.rules, 1, url)

(***************************************************************************)
(* RuleSets: the index and potentially_applicable.                         *)
(***************************************************************************)
RuleSets_new == <<>>

\* try_add putting what it finds in front of the results
try_add_in_front(index, results, host) ==
    IF host \in DOMAIN index THEN index[host] \o results ELSE results

try_add(index, results, host) ==
    IF host \in DOMAIN index THEN results \o index[host] ELSE results

\* the left-wildcard loop with the labels before the "*" kept in the key
RECURSIVE left_wildcards_whole(_, _, _, _)
left_wildcards_whole(index, results, segmented, i) ==
    IF i > Len(segmented) - 1 THEN results
    ELSE left_wildcards_whole(
             index, try_add(index, results, [segmented EXCEPT ![i] = "*"]),
             segmented, i + 1)

RECURSIVE left_wildcards(_, _, _, _)
left_wildcards(index, results, segmented, i) ==
    IF i > Len(segmented) - 1 THEN results
    ELSE LET segmented_tmp == [segmented EXCEPT ![i] = "*"]
             tmp_host == SubSeq(segmented_tmp, i, Len(segmented))
         IN  left_wildcards(index, try_add(index, results, tmp_host), segmented, i + 1)

\* potentially_applicable without the test that the host is well-formed
potentially_applicable_ungated(index, host) ==
    left_wildcards(index,
                   try_add(index, try_add(index, <<>>, host),
                           [host EXCEPT ![Len(host)] = "*"]),
                   host, 1)

\* RuleSets::potentially_applicable
potentially_applicable(index, host) ==
    LET results == try_add(index, <<>>, host)
    IN  IF HostLen(host) <= 0 \/ HostLen(host) > 255 \/ HasDotDot(host)
        THEN results
        ELSE LET last_index == Len(host)
                 tmp_host == [host EXCEPT ![last_index] = "*"]
             IN  left_wildcards(index, try_add(index, results, tmp_host), host, 1)


(***************************************************************************)
(* Ruleset JSON ingestion.  A JSON ruleset object is a record of its       *)
(* fields, each an Option.                                                 *)
(***************************************************************************)
ENABLE_MIXED_RULESETS == TRUE
\* the HashMap RULE_ACTIVE_STATES, which is empty
RULE_ACTIVE_STATES == [name \in {} |-> TRUE]

JsonRuleSet(name, default_off, platform, rule, exclusion, securecookie, target) ==
    [name |-> name, default_off |-> default_off, platform |-> platform,
     rule |-> rule, exclusion |-> exclusion, securecookie |-> securecookie,
     target |-> target]

\* RuleSet::add_rules
add_rules(rules) == [i \in DOMAIN rules |-> Rule_new(rules[i].from, rules[i].to)]

\* RuleSet::add_exclusions: Some(exclusions_vec.join("|"))
add_exclusions(exclusions) == Some(exclusions)

\* A regular expression applied to a cookie domain or a cookie name: the
\* texts it matches; the empty expression matches every text.
TextRegex(texts) == [any |-> FALSE, texts |-> texts]
EmptyTextRegex == [any |-> TRUE, texts |-> {}]
text_is_match(re, text) == re.any \/ text \in re.texts

CookieRule_new(host_regex, name_regex) ==
    [host_regex |-> host_regex, name_regex |-> name_regex]

\* a JSON securecookie object
JsonCookieRule(host, name) == [host |-> host, name |-> name]

\* RuleSet::add_cookierules: a missing host or name becomes String::new()
add_cookierules(cookierules) ==
    Some([i \in DOMAIN cookierules |->
            CookieRule_new(
                IF cookierules[i].host # None THEN cookierules[i].host[1]
                ELSE EmptyTextRegex,
                IF cookierules[i].name # None THEN cookierules[i].name[1]
                ELSE EmptyTextRegex)])

\* a default_state that "user rule" switches off as any other default_off
json_default_state_strict(ruleset, enable_mixed_rulesets) ==
    IF ruleset.default_off # None THEN FALSE
    ELSE IF ruleset.platform = None THEN TRUE
    ELSE ruleset.platform[1] = "mixedcontent" /\ enable_mixed_rulesets

\* the default_state computed from default_off and platform
json_default_state(ruleset, enable_mixed_rulesets) ==
    LET after_default_off ==
            IF ruleset.default_off # None /\ ruleset.default_off[1] # "user rule"
            THEN FALSE ELSE TRUE
    IN  IF ruleset.platform = None THEN after_default_off
        ELSE IF ruleset.platform[1] = "mixedcontent"
        THEN (IF ~enable_mixed_rulesets THEN FALSE ELSE after_default_off)
        ELSE FALSE

\* the RuleSet built from one JSON object that has a name
json_to_ruleset(ruleset, enable_mixed_rulesets, ruleset_active_states, scope) ==
    LET default_state == json_default_state(ruleset, enable_mixed_rulesets)
        ruleset_name == ruleset.name[1]
        active ==
            IF ruleset_name \in DOMAIN ruleset_active_states
            THEN ruleset_active_states[ruleset_name]
            ELSE default_state
        note ==
            IF ruleset.default_off = None /\ ruleset.platform = None THEN None
            ELSE Some([default_off |-> ruleset.default_off,
                       platform |-> ruleset.platform])
    IN  [RuleSet_new(ruleset_name, scope) EXCEPT
            !.default_state = default_state,
            !.note = note,
            !.active = active,
            !.rules = IF ruleset.rule # None THEN add_rules(ruleset.rule[1]) ELSE @,
            !.exclusions =
                IF ruleset.exclusion # None
                THEN add_exclusions(ruleset.exclusion[1]) ELSE @,
            !.cookierules =
                IF ruleset.securecookie # None
                THEN add_cookierules(ruleset.securecookie[1]) ELSE @]

\* targets that take the place of what the index holds under them
RECURSIVE add_targets_replacing(_, _, _, _)
add_targets_replacing(index, rs_rc, targets, i) ==
    IF i > Len(targets) THEN index
    ELSE add_targets_replacing(
             (targets[i] :> <<rs_rc>>) @@ index, rs_rc, targets, i + 1)

\* push the shared ruleset under each target, in order
RECURSIVE add_targets(_, _, _, _)
add_targets(index, rs_rc, targets, i) ==
    IF i > Len(targets) THEN index
    ELSE LET target == targets[i]
             pushed ==
                 IF target \in DOMAIN index
                 THEN [index EXCEPT ![target] = Append(@, rs_rc)]
                 ELSE index @@ (target :> <<rs_rc>>)
         IN  add_targets(pushed, rs_rc, targets, i + 1)

\* the closure add_one_from_json
add_one_from_json(index, ruleset, enable_mixed_rulesets, ruleset_active_states, scope) ==
    IF ruleset.name = None THEN index
    ELSE LET rs_rc == json_to_ruleset(ruleset, enable_mixed_rulesets,
                                       ruleset_active_states, scope)
         IN  IF ruleset.target # None
             THEN add_targets(index, rs_rc, ruleset.target[1], 1)
             ELSE index

RECURSIVE add_all_from_serde_value(_, _, _, _, _)
add_all_from_serde_value(index, json, enable_mixed_rulesets, ruleset_active_states, scope) ==
    IF json = <<>> THEN index
    ELSE add_all_from_serde_value(
             add_one_from_json(index, Head(json), enable_mixed_rulesets,
                               ruleset_active_states, scope),
             Tail(json), enable_mixed_rulesets, ruleset_active_states, scope)

(***************************************************************************)
(* The rulesets the model ingests (after tests/mock_rulesets.json: a       *)
(* NonTrivial rule for freerangekitten.com and a ruleset for               *)
(* *.googleapis.com that excludes the root of chart.googleapis.com), and   *)
(* further ones that make candidates compete.                              *)
(***************************************************************************)
HostRegex(scheme, host) == Pattern({scheme}, TRUE, {host}, AnyPath)
JsonRule(from, to) == [from |-> from, to |-> to]

JsonKitten ==
    JsonRuleSet(Some("FreeRangeKitten"), None, None,
        Some(<<JsonRule(HostRegex("http", KittenHost),
                        Replacement("https", Some(KittenHost)))>>),
        None, None, Some(<<KittenHost>>))

JsonGoogleApis ==
    JsonRuleSet(Some("GoogleAPIs"), None, None,
        Some(<<JsonRule(TRIVIAL_REGEX, TRIVIAL_TO)>>),
        Some(<<Pattern(AnyScheme, FALSE, {ChartHost}, {"/"})>>),
        None, Some(<<GoogleApisTarget>>))

\* disabled by default; would send the kitten URL elsewhere
JsonKittenOff ==
    JsonRuleSet(Some("KittenOff"), Some("breaks the site"), None,
        Some(<<JsonRule(HostRegex("http", KittenHost),
                        Replacement("https", Some(WwwFakeHost)))>>),
        None, None, Some(<<KittenHost>>))

\* a rewrite that stays on http
JsonFakeWww ==
    JsonRuleSet(Some("FakeWww"), None, None,
        Some(<<JsonRule(HostRegex("http", FakeHost),
                        Replacement("http", Some(WwwFakeHost)))>>),
        None, None, Some(<<FakeHost>>))

\* the trivial rule first, then a rule that would upgrade ftp
JsonTrivialFirst ==
    JsonRuleSet(Some("TrivialFirst"), None, None,
        Some(<<JsonRule(TRIVIAL_REGEX, TRIVIAL_TO),
               JsonRule(HostRegex("ftp", FakeHost),
                        Replacement("https", Some(FakeHost)))>>),
        None, None, Some(<<FakeHost>>))

\* a first rule that matches and changes nothing, then one that upgrades
JsonIdentityFirst ==
    JsonRuleSet(Some("IdentityFirst"), None, None,
        Some(<<JsonRule(HostRegex("http", KittenHost),
                        Replacement("http", Some(KittenHost))),
               JsonRule(HostRegex("http", KittenHost),
                        Replacement("https", None))>>),
        None, None, Some(<<KittenHost>>))

\* an update channel's ruleset for the chart host, ingested with a scope
JsonChartAlt ==
    JsonRuleSet(Some("ChartAlt"), None, None,
        Some(<<JsonRule(HostRegex("http", ChartHost),
                        Replacement("https", Some(WwwFakeHost)))>>),
        None, None, Some(<<ChartHost>>))
ChartAltScope == Some(Pattern(AnyScheme, FALSE, AnyHost, {"/123"}))

\* what one call of add_all_from_serde_value is given: <<json array, scope>>
IngestInputs ==
    {<<(<<JsonKitten>>), None>>, <<(<<JsonGoogleApis>>), None>>,
     <<(<<JsonKittenOff>>), None>>, <<(<<JsonFakeWww>>), None>>,
     <<(<<JsonTrivialFirst>>), None>>, <<(<<JsonIdentityFirst>>), None>>,
     <<(<<JsonChartAlt>>), ChartAltScope>>}

\* tests::add_mock_rulesets
MockIndex ==
    add_all_from_serde_value(RuleSets_new, <<JsonKitten, JsonGoogleApis>>,
                             ENABLE_MIXED_RULESETS, RULE_ACTIVE_STATES, None)

RECURSIVE SumLen(_, _)
SumLen(index, keys) ==
    IF keys = {} THEN 0
    ELSE LET k == CHOOSE k \in keys : TRUE
         IN  Len(index[k]) + SumLen(index, keys \ {k})

\* the number of entries of the index
IndexEntries(index) == SumLen(index, DOMAIN index)


(***************************************************************************)
(* Storage and Settings.  The store is one map per value type; a key       *)
(* "<name>: <channel>" is <<name, channel>>, and <<name, "">> for a key    *)
(* that belongs to no channel.                                             *)
(***************************************************************************)
Key(name) == <<name, "">>
ChannelKey(name, channel) == <<name, channel>>

EmptyMap == [key \in {} |-> None]
EmptyStorage ==
    [bools |-> EmptyMap, ints |-> EmptyMap, strings |-> EmptyMap, bytes |-> EmptyMap]

get_bool(st, key) == IF key \in DOMAIN st.bools THEN Some(st.bools[key]) ELSE None
set_bool(st, key, value) == [st EXCEPT !.bools = (key :> value) @@ @]
get_int(st, key) == IF key \in DOMAIN st.ints THEN Some(st.ints[key]) ELSE None
set_int(st, key, value) == [st EXCEPT !.ints = (key :> value) @@ @]
get_string(st, key) ==
    IF key \in DOMAIN st.strings THEN Some(st.strings[key]) ELSE None
set_string(st, key, value) == [st EXCEPT !.strings = (key :> value) @@ @]
get_bytes(st, key) == IF key \in DOMAIN st.bytes THEN Some(st.bytes[key]) ELSE None
set_bytes(st, key, value) == [st EXCEPT !.bytes = (key :> value) @@ @]

\* Option::unwrap_or
unwrap_or(option, default) == IF option = None THEN default ELSE option[1]

\* the enabled flag read with the stored value ignored
get_https_everywhere_enabled_or_unread(st, default) == default

\* Settings::get_https_everywhere_enabled_or
get_https_everywhere_enabled_or(st, default) ==
    IF get_bool(st, Key("global_enabled")) # None
    THEN get_bool(st, Key("global_enabled"))[1]
    ELSE default

\* Settings::get_ease_mode_enabled_or
get_ease_mode_enabled_or(st, default) ==
    IF get_bool(st, Key("http_nowhere_on")) # None
    THEN get_bool(st, Key("http_nowhere_on"))[1]
    ELSE default

(***************************************************************************)
(* Rewriter.                                                               *)
(***************************************************************************)
CancelRequest == [kind |-> "CancelRequest", url |-> None]
NoOp == [kind |-> "NoOp", url |-> None]
RewriteUrl(url) == [kind |-> "RewriteUrl", url |-> Some(url)]
RedirectLoopWarning == [kind |-> "RedirectLoopWarning", url |-> None]

\* hostname.trim_end_matches('.')
RECURSIVE trim_end_dots(_)
trim_end_dots(host) ==
    IF Len(host) > 1 /\ host[Len(host)] = ""
    THEN trim_end_dots(SubSeq(host, 1, Len(host) - 1))
    ELSE host

\* the lookup key derived from url.host_str()
hostname_of(host_str) ==
    LET hostname == trim_end_dots(host_str)
    IN  IF hostname = <<"">> THEN <<"", "">> ELSE hostname

\* hostname.ends_with(".<label>")
ends_with_label(hostname, label) ==
    Len(hostname) >= 2 /\ hostname[Len(hostname)] = label

\* r"^127(\.[0-9]{1,3}){3}$"
num_localhost_is_match(hostname) ==
    /\ Len(hostname) = 4
    /\ hostname[1] = "127"
    /\ \A i \in 2..4 : IsDigits1to3(hostname[i])

\* the hosts EASE mode never cancels
ease_exempt(hostname) ==
    \/ ends_with_label(hostname, "onion")
    \/ hostname = <<"localhost">>
    \/ ends_with_label(hostname, "localhost")
    \/ num_localhost_is_match(hostname)
    \/ hostname = <<"0", "0", "0", "0">>
    \/ hostname = <<"[::1]">>

should_cancel_of(http_nowhere_on, url, hostname) ==
    /\ http_nowhere_on
    /\ url.scheme = "http" \/ url.scheme = "ftp"
    /\ ~ease_exempt(hostname)

\* apply_if_active without the test that no rewrite was found yet
apply_if_active_last_wins(new_url, ruleset, url) ==
    IF ruleset.active THEN apply(ruleset, url) ELSE new_url

\* the closure apply_if_active: new_url after one more candidate
apply_if_active(new_url, ruleset, url) ==
    IF ruleset.active /\ new_url = None THEN apply(ruleset, url) ELSE new_url

\* one round of the loop over the candidates: the scope test
apply_in_scope(new_url, ruleset, url) ==
    IF ruleset.scope # None
    THEN (IF is_match(ruleset.scope[1], url)
          THEN apply_if_active(new_url, ruleset, url)
          ELSE new_url)
    ELSE apply_if_active(new_url, ruleset, url)

\* the loop over potentially_applicable(hostname)
RECURSIVE apply_candidates(_, _, _, _)
apply_candidates(candidates, i, url, new_url) ==
    IF i > Len(candidates) THEN new_url
    ELSE apply_candidates(candidates, i + 1, url,
                          apply_in_scope(new_url, candidates[i], url))

HistoryTruncate == 14
LoopThreshold == 8

\* the entries of the history that equal (url, action)
same_in_history(history, url, action) ==
    {i \in DOMAIN history : history[i].url = url /\ history[i].action = action}

\* the end of record_history with "more than" in place of "at least"
loop_check_above(pushed, url, action) ==
    [history |-> pushed,
     ret |-> IF Cardinality(same_in_history(pushed, url, action)) > LoopThreshold
             THEN RedirectLoopWarning
             ELSE action]

\* the end of record_history, on the history after push_front
loop_check(pushed, url, action) ==
    [history |-> pushed,
     ret |-> IF Cardinality(same_in_history(pushed, url, action)) >= LoopThreshold
             THEN RedirectLoopWarning
             ELSE action]

\* rewrite_history.truncate(14)
truncate(history) ==
    SubSeq(history, 1, IF Len(history) < HistoryTruncate
                       THEN Len(history) ELSE HistoryTruncate)

\* Rewriter::record_history: the new history and the action returned
record_history(history, url, action) ==
    loop_check(<<[url |-> url, action |-> action]>> \o truncate(history),
               url, action)

\* rewrite_url without the removal of the userinfo
strip_credentials_kept(url) == url

\* the URL with the userinfo taken out, and put back from tmp_url
strip_credentials(url) == [url EXCEPT !.username = "", !.password = None]
restore_credentials(url, tmp_url) ==
    [url EXCEPT !.username = tmp_url.username, !.password = tmp_url.password]

\* the end of rewrite_url with the counter incremented before the EASE test
finish_counting_cancelled(http_nowhere_on, should_cancel, url, new_url) ==
    IF http_nowhere_on /\ should_cancel /\ new_url = None
    THEN [url |-> url, action |-> CancelRequest, counted |-> FALSE]
    ELSE IF /\ http_nowhere_on
            /\ new_url # None
            /\ \/ starts_with_scheme(new_url[1], "http")
               \/ starts_with_scheme(new_url[1], "ftp")
    THEN [url |-> url, action |-> CancelRequest, counted |-> TRUE]
    ELSE IF new_url # None
    THEN [url |-> url, action |-> RewriteUrl(new_url[1]), counted |-> TRUE]
    ELSE [url |-> url, action |-> NoOp, counted |-> FALSE]

\* the end of rewrite_url: what is recorded, and whether the counter is
\* incremented
finish(http_nowhere_on, should_cancel, url, new_url) ==
    IF http_nowhere_on /\ should_cancel /\ new_url = None
    THEN [url |-> url, action |-> CancelRequest, counted |-> FALSE]
    ELSE IF /\ http_nowhere_on
            /\ new_url # None
            /\ \/ starts_with_scheme(new_url[1], "http")
               \/ starts_with_scheme(new_url[1], "ftp")
    THEN [url |-> url, action |-> CancelRequest, counted |-> FALSE]
    ELSE IF new_url # None
    THEN [url |-> url, action |-> RewriteUrl(new_url[1]), counted |-> TRUE]
    ELSE [url |-> url, action |-> NoOp, counted |-> FALSE]

\* the userinfo put back on the URL that carries on
reattach(using_credentials_in_url, tmp_url, url, new_url) ==
    [url |-> IF using_credentials_in_url /\ new_url = None
             THEN restore_credentials(url, tmp_url) ELSE url,
     new_url |-> IF using_credentials_in_url /\ new_url # None
                 THEN Some(restore_credentials(new_url[1], tmp_url)) ELSE new_url]

\* the candidates applied to the URL without its userinfo
rewritten(index, hostname, using_credentials_in_url, tmp_url, url) ==
    reattach(using_credentials_in_url, tmp_url, url,
             apply_candidates(potentially_applicable(index, hostname), 1, url, None))

finish_reattached(http_nowhere_on, should_cancel, urls) ==
    finish(http_nowhere_on, should_cancel, urls.url, urls.new_url)

with_hostname(index, http_nowhere_on, parsed, hostname) ==
    finish_reattached(
        http_nowhere_on,
        should_cancel_of(http_nowhere_on, parsed, hostname),
        rewritten(index, hostname,
                  parsed.username # "" \/ parsed.password # None, parsed,
                  IF parsed.username # "" \/ parsed.password # None
                  THEN strip_credentials(parsed) ELSE parsed))

\* rewrite_url once the URL is parsed
decide(index, st, parsed) ==
    IF parsed.host # None
    THEN with_hostname(index, get_ease_mode_enabled_or(st, FALSE), parsed,
                       hostname_of(parsed.host[1]))
    ELSE [url |-> parsed, action |-> NoOp, counted |-> FALSE]

\* Rewriter::rewrite_url
rewrite_url(input) ==
    IF ~get_https_everywhere_enabled_or(storage, TRUE)
    THEN /\ last' = [op |-> "rewrite_url", input |-> input, ret |-> Some(NoOp),
                     recorded |-> FALSE, count_before |-> rewrite_count]
         /\ UNCHANGED <<rulesets, storage, rewriter_vars, updater_vars>>
    ELSE IF Url_parse(input) = None
    THEN /\ last' = [op |-> "rewrite_url", input |-> input, ret |-> None,
                     recorded |-> FALSE, count_before |-> rewrite_count]
         /\ UNCHANGED <<rulesets, storage, rewriter_vars, updater_vars>>
    ELSE \E d \in {decide(rulesets, storage, Url_parse(input)[1])} :
         \E r \in {record_history(rewrite_history, d.url, d.action)} :
             /\ rewrite_count' = IF d.counted THEN rewrite_count + 1
                                 ELSE rewrite_count
             /\ rewrite_history' = r.history
             /\ last' = [op |-> "rewrite_url", input |-> input, ret |-> Some(r.ret),
                         recorded |-> TRUE, count_before |-> rewrite_count]
             /\ log' = Append(log, [url |-> d.url, action |-> d.action,
                                    ret |-> r.ret])
             /\ UNCHANGED <<rulesets, storage, cookie_host_safety_cache, updater_vars>>

CacheCapacity == 250

\* LruCache::get: the value, and the cache with the entry made most recent
lru_get(cache, key) ==
    IF \E i \in DOMAIN cache : cache[i].key = key
    THEN LET i == CHOOSE i \in DOMAIN cache : cache[i].key = key
         IN  [value |-> Some(cache[i].value),
              cache |-> <<cache[i]>> \o SubSeq(cache, 1, i - 1)
                            \o SubSeq(cache, i + 1, Len(cache))]
    ELSE [value |-> None, cache |-> cache]

\* a cache that never drops an entry
lru_put_unbounded(cache, key, value) ==
    <<[key |-> key, value |-> value]>>
        \o SelectSeq(cache, LAMBDA entry : entry.key # key)

\* LruCache::put: the entry becomes the most recent one; at capacity the
\* least recent entry is dropped for a new key
lru_put(cache, key, value) ==
    IF \E i \in DOMAIN cache : cache[i].key = key
    THEN LET i == CHOOSE i \in DOMAIN cache : cache[i].key = key
         IN  <<[key |-> key, value |-> value]>> \o SubSeq(cache, 1, i - 1)
                 \o SubSeq(cache, i + 1, Len(cache))
    ELSE IF Len(cache) >= CacheCapacity
    THEN <<[key |-> key, value |-> value]>> \o SubSeq(cache, 1, CacheCapacity - 1)
    ELSE <<[key |-> key, value |-> value]>> \o cache

\* domain.trim_start_matches('.')
RECURSIVE trim_start_dots(_)
trim_start_dots(domain) ==
    IF Len(domain) > 1 /\ domain[1] = ""
    THEN trim_start_dots(Tail(domain))
    ELSE domain

\* "http://" + domain + "/is_it_safe/to_secure_this_cookie"
test_url_of(domain) == PlainUrl("http", domain, "/is_it_safe/to_secure_this_cookie")

\* Rewriter::safe_to_secure_cookie: the answer and the cache that holds it
safe_to_secure_cookie(cache, domain, candidates) ==
    IF \E i \in DOMAIN candidates :
           candidates[i].active /\ apply(candidates[i], test_url_of(domain)) # None
    THEN [ret |-> TRUE, cache |-> lru_put(cache, domain, TRUE)]
    ELSE [ret |-> FALSE, cache |-> lru_put(cache, domain, FALSE)]

\* the loops of should_secure_cookie reach a CookieRule that matches
cookierule_matches(candidates, domain, name) ==
    \E i \in DOMAIN candidates :
        /\ candidates[i].cookierules # None
        /\ candidates[i].active
        /\ \E k \in DOMAIN candidates[i].cookierules[1] :
               /\ text_is_match(candidates[i].cookierules[1][k].host_regex, domain)
               /\ text_is_match(candidates[i].cookierules[1][k].name_regex, name)

\* should_secure_cookie once the cache was consulted
secure_after_lookup(index, got, domain, name) ==
    IF got.value = Some(FALSE) THEN [ret |-> FALSE, cache |-> got.cache]
    ELSE IF cookierule_matches(potentially_applicable(index, domain), domain, name)
    THEN (IF got.value = Some(TRUE) THEN [ret |-> TRUE, cache |-> got.cache]
          ELSE safe_to_secure_cookie(got.cache, domain,
                                     potentially_applicable(index, domain)))
    ELSE [ret |-> FALSE, cache |-> got.cache]

\* what should_secure_cookie returns, as a value of the history variable
Secure(value) == [kind |-> IF value THEN "true" ELSE "false", url |-> None]

\* Rewriter::should_secure_cookie
should_secure_cookie(domain, name) ==
    \E r \in {secure_after_lookup(
                  rulesets,
                  lru_get(cookie_host_safety_cache, trim_start_dots(domain)),
                  trim_start_dots(domain), name)} :
        /\ cookie_host_safety_cache' = r.cache
        /\ last' = [op |-> "should_secure_cookie",
                    input |-> [valid |-> TRUE, url |-> None, domain |-> domain,
                               name |-> name],
                    ret |-> Some(Secure(r.ret)), recorded |-> FALSE,
                    count_before |-> rewrite_count]
        /\ UNCHANGED <<rulesets, storage, rewrite_count, rewrite_history, log,
                       updater_vars>>

\* Rewriter::get_rewrite_count
get_rewrite_count == rewrite_count

\* RuleSets::add_all_from_serde_value on the shared index
add_rulesets(json, scope) ==
    /\ rulesets' = add_all_from_serde_value(rulesets, json, ENABLE_MIXED_RULESETS,
                                            RULE_ACTIVE_STATES, scope)
    /\ last' = [op |-> "add_rulesets", input |-> InvalidInput, ret |-> None,
                recorded |-> FALSE, count_before |-> rewrite_count]
    /\ UNCHANGED <<storage, rewriter_vars, updater_vars>>

(***************************************************************************)
(* Update channels, and what the update server sends.  A body is described *)
(* by how it decodes: gzip bytes by the text they inflate to, a text by    *)
(* the JSON value it parses to, a signature by the key that made it and    *)
(* the bytes it was made over; each decoding can fail.                     *)
(***************************************************************************)
UpdateChannel(name, key, update_path_prefix, scope, replaces_default_rulesets, format) ==
    [name |-> name, key |-> key, update_path_prefix |-> update_path_prefix,
     scope |-> scope, replaces_default_rulesets |-> replaces_default_rulesets,
     format |-> format]

\* what request::get yields: Err, or a response with its status and body
TransportError == [result |-> "Err", success |-> FALSE, body |-> None]
Non2xx == [result |-> "Ok", success |-> FALSE, body |-> None]
Fetched(body) == [result |-> "Ok", success |-> TRUE, body |-> Some(body)]

\* a string is the JSON text of a value, or no JSON at all
JsonText(value) == [json |-> Some(value)]
NotJsonText == [json |-> None]
\* serde_json::from_str, serde_json::from_slice: Ok(value) or Err
serde_json_from_str(text) == text.json

\* bytes are the gzip of a text, or no gzip stream
Gzip(text) == [gzip |-> Some(text)]
NotGzip == [gzip |-> None]
\* GzDecoder::read_to_string: Ok(text) or Err
read_to_string(bytes) == bytes.gzip

\* an RSA-PSS signature made with the private half of key over data, or
\* bytes that OpenSSL fails on
Signature(key, data) == [wellformed |-> TRUE, signer |-> Some(key), over |-> Some(data)]
MalformedSignature == [wellformed |-> FALSE, signer |-> None, over |-> None]
\* Verifier::verify after update(data): Err, Ok(false) or Ok(true)
verify(key, data, signature) ==
    IF ~signature.wellformed THEN None
    ELSE Some(signature.signer = Some(key) /\ signature.over = Some(data))

\* ring::digest::digest(&SHA256, bytes)
sha256(bytes) == [sha256 |-> bytes]

\* the JSON values of a ruleset bundle and of the bloom metadata; a field
\* that is missing or of the wrong type is None
RulesetsBundle(timestamp, json_rulesets) ==
    [timestamp |-> timestamp, rulesets |-> json_rulesets]
BloomMetadata(timestamp, sha256sum, bitmap_bits, k_num, sip_keys) ==
    [timestamp |-> timestamp, sha256sum |-> sha256sum, bitmap_bits |-> bitmap_bits,
     k_num |-> k_num, sip_keys |-> sip_keys]

\* Bloom::from_existing
Bloom_from_existing(bitmap, bitmap_bits, k_num, sip_keys) ==
    [bitmap |-> bitmap, bitmap_bits |-> bitmap_bits, k_num |-> k_num,
     sip_keys |-> sip_keys]

(***************************************************************************)
(* Updater.  The functions take the store and return the store they leave  *)
(* with their result.                                                      *)
(***************************************************************************)
\* a probe that does not compare with the stored timestamp
check_for_new_updates_unordered(st, uc, latest) ==
    IF latest.result = "Err" THEN None
    ELSE IF ~latest.success THEN None
    ELSE latest.body[1]

\* a probe that also passes a timestamp equal to the stored one
check_for_new_updates_not_strict(st, uc, latest) ==
    IF latest.result = "Err" THEN None
    ELSE IF ~latest.success THEN None
    ELSE IF latest.body[1] = None THEN None
    ELSE IF unwrap_or(get_int(st, ChannelKey("uc-timestamp", uc.name)), 0)
                <= latest.body[1][1]
    THEN Some(latest.body[1][1])
    ELSE None

\* Updater::check_for_new_updates
check_for_new_updates(st, uc, latest) ==
    IF latest.result = "Err" THEN None
    ELSE IF ~latest.success THEN None
    ELSE IF latest.body[1] = None THEN None
    ELSE IF unwrap_or(get_int(st, ChannelKey("uc-timestamp", uc.name)), 0)
                < latest.body[1][1]
    THEN Some(latest.body[1][1])
    ELSE None

\* request::get(..)? followed by the status test
fetch_failed(response) == response.result = "Err" \/ ~response.success

\* Updater::get_new_rulesets
get_new_rulesets(st, rulesets_timestamp, update_channel, remote) ==
    [storage |-> set_int(st, ChannelKey("uc-timestamp", update_channel.name),
                         rulesets_timestamp),
     result |-> IF fetch_failed(remote.signature) THEN None
                ELSE IF fetch_failed(remote.payload) THEN None
                ELSE Some(<<remote.signature.body[1], remote.payload.body[1]>>)]

\* Updater::get_new_bloom
get_new_bloom(st, bloom_timestamp, update_channel, remote) ==
    [storage |-> set_int(st, ChannelKey("uc-timestamp", update_channel.name),
                         bloom_timestamp),
     result |-> IF fetch_failed(remote.signature) THEN None
                ELSE IF fetch_failed(remote.payload) THEN None
                ELSE IF fetch_failed(remote.bloom) THEN None
                ELSE Some(<<remote.signature.body[1], remote.payload.body[1],
                            remote.bloom.body[1]>>)]

Ok(st) == [storage |-> st, ok |-> TRUE, panic |-> FALSE]
Err(st) == [storage |-> st, ok |-> FALSE, panic |-> FALSE]
\* the thread panics and unwinds: an index out of bounds, unwrap of None
Panic(st) == [storage |-> st, ok |-> FALSE, panic |-> TRUE]

\* the timestamp test of the two verify_and_store functions
json_timestamp_ok(value, timestamp) ==
    value.timestamp # None /\ value.timestamp[1] = timestamp

\* verify_and_store_new_rulesets without the else branch of the signature
\* test
verify_and_store_new_rulesets_no_else(st, signature, rulesets_gz, rulesets_timestamp, update_channel) ==
    IF verify(update_channel.key, rulesets_gz, signature) = None THEN Err(st)
    ELSE IF verify(update_channel.key, rulesets_gz, signature)[1]
    THEN (IF read_to_string(rulesets_gz) = None THEN Err(st)
          ELSE IF serde_json_from_str(read_to_string(rulesets_gz)[1]) = None
          THEN Err(st)
          ELSE IF ~json_timestamp_ok(
                      serde_json_from_str(read_to_string(rulesets_gz)[1])[1],
                      rulesets_timestamp)
          THEN Err(st)
          ELSE Ok(set_string(st, ChannelKey("rulesets", update_channel.name),
                             read_to_string(rulesets_gz)[1])))
    ELSE Ok(st)

\* Updater::verify_and_store_new_rulesets
verify_and_store_new_rulesets(st, signature, rulesets_gz, rulesets_timestamp, update_channel) ==
    IF verify(update_channel.key, rulesets_gz, signature) = None THEN Err(st)
    ELSE IF verify(update_channel.key, rulesets_gz, signature)[1]
    THEN (IF read_to_string(rulesets_gz) = None THEN Err(st)
          ELSE IF serde_json_from_str(read_to_string(rulesets_gz)[1]) = None
          THEN Err(st)
          ELSE IF ~json_timestamp_ok(
                      serde_json_from_str(read_to_string(rulesets_gz)[1])[1],
                      rulesets_timestamp)
          THEN Err(st)
          ELSE Ok(set_string(st, ChannelKey("rulesets", update_channel.name),
                             read_to_string(rulesets_gz)[1])))
    ELSE Err(st)

\* the storage writes at the end of verify_and_store_new_bloom
store_bloom(st, name, bloom, metadata) ==
    set_int(set_int(set_int(set_int(set_int(set_int(set_bytes(st,
        ChannelKey("bloom", name), bloom),
        ChannelKey("bloom_bitmap_bits", name), metadata.bitmap_bits[1]),
        ChannelKey("bloom_k_num", name), metadata.k_num[1]),
        ChannelKey("bloom_sip_keys_0_0", name), metadata.sip_keys[1][1][1]),
        ChannelKey("bloom_sip_keys_0_1", name), metadata.sip_keys[1][1][2]),
        ChannelKey("bloom_sip_keys_1_0", name), metadata.sip_keys[1][2][1]),
        ChannelKey("bloom_sip_keys_1_1", name), metadata.sip_keys[1][2][2])

\* verify_and_store_new_bloom once the metadata is parsed
store_verified_bloom(st, metadata, bloom, bloom_timestamp, update_channel) ==
    IF ~json_timestamp_ok(metadata, bloom_timestamp) THEN Err(st)
    ELSE IF metadata.sha256sum = None THEN Err(st)
    ELSE IF metadata.sha256sum[1] # sha256(bloom) THEN Err(st)
    ELSE IF metadata.bitmap_bits = None THEN Err(st)
    ELSE IF metadata.k_num = None THEN Err(st)
    ELSE IF metadata.sip_keys = None THEN Err(st)
    ELSE IF Len(metadata.sip_keys[1]) < 2 THEN Panic(st)
    ELSE Ok(store_bloom(st, update_channel.name, bloom, metadata))

\* Updater::verify_and_store_new_bloom
verify_and_store_new_bloom(st, signature, bloom_metadata, bloom, bloom_timestamp, update_channel) ==
    IF verify(update_channel.key, bloom_metadata, signature) = None THEN Err(st)
    ELSE IF verify(update_channel.key, bloom_metadata, signature)[1]
    THEN (IF serde_json_from_str(bloom_metadata) = None THEN Err(st)
          ELSE store_verified_bloom(st, serde_json_from_str(bloom_metadata)[1],
                                    bloom, bloom_timestamp, update_channel))
    ELSE Ok(st)

\* the body of the first loop of perform_check once a newer timestamp is
\* known and not skipped: acc is <<store, some_updated>> as a record
download_rulesets(acc, uc, remote, new_rulesets_timestamp, got) ==
    IF got.result = None
    THEN [acc EXCEPT !.storage = got.storage]
    ELSE IF ~verify_and_store_new_rulesets(got.storage, got.result[1][1],
                 got.result[1][2], new_rulesets_timestamp, uc).ok
    THEN [acc EXCEPT !.storage = got.storage]
    ELSE [acc EXCEPT
             !.storage =
                 set_int(verify_and_store_new_rulesets(got.storage,
                             got.result[1][1], got.result[1][2],
                             new_rulesets_timestamp, uc).storage,
                         ChannelKey("uc-stored-timestamp", uc.name),
                         new_rulesets_timestamp),
             !.some_updated = TRUE]

\* a round that does not compare with the bundled rulesets
check_rulesets_channel_any_age(acc, uc, remote, extension_timestamp) ==
    IF check_for_new_updates(acc.storage, uc, remote.latest) = None THEN acc
    ELSE download_rulesets(acc, uc, remote,
             check_for_new_updates(acc.storage, uc, remote.latest)[1],
             get_new_rulesets(acc.storage,
                 check_for_new_updates(acc.storage, uc, remote.latest)[1],
                 uc, remote))

\* one round of the first loop of perform_check
check_rulesets_channel(acc, uc, remote, extension_timestamp) ==
    IF check_for_new_updates(acc.storage, uc, remote.latest) = None THEN acc
    ELSE IF /\ uc.replaces_default_rulesets
            /\ extension_timestamp
                   > check_for_new_updates(acc.storage, uc, remote.latest)[1]
    THEN acc
    ELSE download_rulesets(acc, uc, remote,
             check_for_new_updates(acc.storage, uc, remote.latest)[1],
             get_new_rulesets(acc.storage,
                 check_for_new_updates(acc.storage, uc, remote.latest)[1],
                 uc, remote))

download_bloom(acc, uc, remote, new_bloom_timestamp, got) ==
    IF got.result = None
    THEN [acc EXCEPT !.storage = got.storage]
    ELSE IF verify_and_store_new_bloom(got.storage, got.result[1][1],
                got.result[1][2], got.result[1][3], new_bloom_timestamp, uc).panic
    THEN [acc EXCEPT !.storage = got.storage, !.panicked = TRUE]
    ELSE IF ~verify_and_store_new_bloom(got.storage, got.result[1][1],
                 got.result[1][2], got.result[1][3], new_bloom_timestamp, uc).ok
    THEN [acc EXCEPT !.storage = got.storage]
    ELSE [acc EXCEPT
             !.storage =
                 set_int(verify_and_store_new_bloom(got.storage, got.result[1][1],
                             got.result[1][2], got.result[1][3],
                             new_bloom_timestamp, uc).storage,
                         ChannelKey("uc-stored-timestamp", uc.name),
                         new_bloom_timestamp),
             !.some_updated = TRUE]

\* one round of the second loop of perform_check
check_bloom_channel(acc, uc, remote) ==
    IF check_for_new_updates(acc.storage, uc, remote.latest) = None THEN acc
    ELSE download_bloom(acc, uc, remote,
             check_for_new_updates(acc.storage, uc, remote.latest)[1],
             get_new_bloom(acc.storage,
                 check_for_new_updates(acc.storage, uc, remote.latest)[1],
                 uc, remote))

\* the two loops of perform_check over the channels of one format
RECURSIVE check_channels(_, _, _, _, _, _)
check_channels(acc, channels, i, format, remotes, extension_timestamp) ==
    IF i > Len(channels) \/ acc.panicked THEN acc
    ELSE check_channels(
             IF channels[i].format # format THEN acc
             ELSE IF format = "RuleSets"
             THEN check_rulesets_channel(acc, channels[i], remotes[channels[i].name],
                                         extension_timestamp)
             ELSE check_bloom_channel(acc, channels[i], remotes[channels[i].name]),
             channels, i + 1, format, remotes, extension_timestamp)

\* rulesets_closure for the channels of the ruleset format: the Ok results
RECURSIVE rulesets_tuples(_, _, _)
rulesets_tuples(st, channels, i) ==
    IF i > Len(channels) THEN <<>>
    ELSE IF channels[i].format # "RuleSets" THEN rulesets_tuples(st, channels, i + 1)
    ELSE IF get_string(st, ChannelKey("rulesets", channels[i].name)) = None
    THEN rulesets_tuples(st, channels, i + 1)
    ELSE IF serde_json_from_str(
                get_string(st, ChannelKey("rulesets", channels[i].name))[1]) = None
    THEN rulesets_tuples(st, channels, i + 1)
    ELSE <<(<<serde_json_from_str(
                  get_string(st, ChannelKey("rulesets", channels[i].name))[1]
              )[1].rulesets[1],
              channels[i].scope,
              channels[i].replaces_default_rulesets>>)>>
             \o rulesets_tuples(st, channels, i + 1)

RECURSIVE add_all_tuples(_, _, _)
add_all_tuples(index, tuples, i) ==
    IF i > Len(tuples) THEN index
    ELSE add_all_tuples(
             add_all_from_serde_value(index, tuples[i][1], ENABLE_MIXED_RULESETS,
                                      RULE_ACTIVE_STATES, tuples[i][2]),
             tuples, i + 1)

\* RuleSets::add_all_from_json_string
add_all_from_json_string(index, json_string, enable_mixed_rulesets, ruleset_active_states, scope) ==
    add_all_from_serde_value(index, serde_json_from_str(json_string)[1],
                             enable_mixed_rulesets, ruleset_active_states, scope)

\* a rebuild that ingests the default rulesets whatever the channels are
rebuilt_rulesets_with_defaults(tuples, default_rulesets) ==
    IF default_rulesets # None
    THEN add_all_from_json_string(add_all_tuples(RuleSets_new, tuples, 1),
                                  default_rulesets[1], ENABLE_MIXED_RULESETS,
                                  RULE_ACTIVE_STATES, None)
    ELSE add_all_tuples(RuleSets_new, tuples, 1)

\* the index that apply_stored_rulesets builds from the Ok results
rebuilt_rulesets(tuples, default_rulesets) ==
    IF (\A i \in DOMAIN tuples : ~tuples[i][3]) /\ default_rulesets # None
    THEN add_all_from_json_string(add_all_tuples(RuleSets_new, tuples, 1),
                                  default_rulesets[1], ENABLE_MIXED_RULESETS,
                                  RULE_ACTIVE_STATES, None)
    ELSE add_all_tuples(RuleSets_new, tuples, 1)

\* bloom_closure on a channel that has stored bytes
bloom_closure(st, name) ==
    Bloom_from_existing(
        get_bytes(st, ChannelKey("bloom", name))[1],
        get_int(st, ChannelKey("bloom_bitmap_bits", name))[1],
        get_int(st, ChannelKey("bloom_k_num", name))[1],
        <<(<<get_int(st, ChannelKey("bloom_sip_keys_0_0", name))[1],
             get_int(st, ChannelKey("bloom_sip_keys_0_1", name))[1]>>),
          (<<get_int(st, ChannelKey("bloom_sip_keys_1_0", name))[1],
             get_int(st, ChannelKey("bloom_sip_keys_1_1", name))[1]>>)>>)

\* the vector of blooms that apply_stored_rulesets builds
RECURSIVE rebuilt_blooms(_, _, _)
rebuilt_blooms(st, channels, i) ==
    IF i > Len(channels) THEN <<>>
    ELSE IF channels[i].format # "Bloom" THEN rebuilt_blooms(st, channels, i + 1)
    ELSE IF get_bytes(st, ChannelKey("bloom", channels[i].name)) = None
    THEN rebuilt_blooms(st, channels, i + 1)
    ELSE <<bloom_closure(st, channels[i].name)>>
             \o rebuilt_blooms(st, channels, i + 1)

\* rulesets_closure unwraps the "rulesets" field of a stored bundle: it
\* panics on a bundle without one, holding the lock of the store
rulesets_closure_panics(st, channels) ==
    \E i \in DOMAIN channels :
        /\ channels[i].format = "RuleSets"
        /\ get_string(st, ChannelKey("rulesets", channels[i].name)) # None
        /\ serde_json_from_str(
               get_string(st, ChannelKey("rulesets", channels[i].name))[1]) # None
        /\ serde_json_from_str(
               get_string(st, ChannelKey("rulesets", channels[i].name))[1]
           )[1].rulesets = None

\* Updater::apply_stored_rulesets; the closures run before the index is
\* cleared
apply_stored_rulesets(st) ==
    IF rulesets_closure_panics(st, updater.update_channels)
    THEN UNCHANGED <<rulesets, blooms>>
    ELSE /\ rulesets' = rebuilt_rulesets(
                            rulesets_tuples(st, updater.update_channels, 1),
                            updater.default_rulesets)
         /\ blooms' = rebuilt_blooms(st, updater.update_channels, 1)

\* perform_check after the two loops, unless a loop panicked
perform_check_end(now, remotes, checked) ==
    /\ storage' = checked.storage
    /\ IF checked.some_updated /\ ~checked.panicked
       THEN apply_stored_rulesets(checked.storage)
       ELSE UNCHANGED <<rulesets, blooms>>
    /\ tick' = [count |-> tick.count + 1, now |-> now, remotes |-> remotes,
                before |-> storage, some_updated |-> checked.some_updated,
                panicked |->
                    \/ checked.panicked
                    \/ /\ checked.some_updated
                       /\ rulesets_closure_panics(checked.storage,
                                                  updater.update_channels),
                poisoned |->
                    /\ ~checked.panicked
                    /\ checked.some_updated
                    /\ rulesets_closure_panics(checked.storage,
                                               updater.update_channels)]
    /\ last' = [op |-> "perform_check", input |-> InvalidInput, ret |-> None,
                recorded |-> FALSE, count_before |-> rewrite_count]
    /\ UNCHANGED <<rewriter_vars, updater, threads>>

\* perform_check when the lock of the store is poisoned: lock().unwrap()
\* panics at once
perform_check_poisoned(now, remotes) ==
    /\ tick' = [count |-> tick.count + 1, now |-> now, remotes |-> remotes,
                before |-> storage, some_updated |-> FALSE,
                panicked |-> TRUE, poisoned |-> TRUE]
    /\ last' = [op |-> "perform_check", input |-> InvalidInput, ret |-> None,
                recorded |-> FALSE, count_before |-> rewrite_count]
    /\ UNCHANGED <<rulesets, storage, blooms, rewriter_vars, updater, threads>>

\* the second loop of perform_check, after the first
check_bloom_channels(checked_rulesets, remotes) ==
    check_channels(checked_rulesets, updater.update_channels, 1, "Bloom", remotes, 0)

\* Updater::perform_check, at the time now and with the server answering
\* remotes[name] to the requests of channel name
perform_check(now, remotes) ==
    IF tick.poisoned THEN perform_check_poisoned(now, remotes)
    ELSE perform_check_end(now, remotes,
        check_bloom_channels(
            check_channels(
                [storage |-> set_int(storage, Key("last-checked"), now),
                 some_updated |-> FALSE, panicked |-> FALSE],
                updater.update_channels, 1, "RuleSets", remotes,
                unwrap_or(get_int(set_int(storage, Key("last-checked"), now),
                                  Key("extension-timestamp")), 0)),
            remotes))

(***************************************************************************)
(* The update channels of the model and the answers of their servers.      *)
(***************************************************************************)
\* replaces the bundled rulesets
ChannelA == UpdateChannel("A", "KeyA", "https://a.example/", None, TRUE, "RuleSets")
\* adds rulesets within a scope
ChannelB ==
    UpdateChannel("B", "KeyB", "https://b.example/", ChartAltScope, FALSE, "RuleSets")
ChannelC == UpdateChannel("C", "KeyC", "https://c.example/", None, FALSE, "Bloom")
ChannelD == UpdateChannel("D", "KeyD", "https://d.example/", None, FALSE, "Bloom")

ChannelLists ==
    {<<ChannelA>>, <<ChannelB>>, <<ChannelC>>, <<ChannelA, ChannelC>>,
     <<ChannelB, ChannelC>>, <<ChannelB, ChannelA>>, <<ChannelC, ChannelD>>}

\* the rulesets bundled with the application
DefaultRulesets == Some(JsonText(<<JsonKitten, JsonGoogleApis>>))

Timestamps == 1..MaxTimestamp

\* the answers to the requests one channel can make: the latest timestamp,
\* the signature, the signed payload (the gzipped bundle, or the bloom
\* metadata) and the bloom filter
Remote(latest, signature, payload, bloom) ==
    [latest |-> latest, signature |-> signature, payload |-> payload,
     bloom |-> bloom]

\* the timestamp file cannot be had, or holds no integer
NoLatest ==
    {Remote(latest, Non2xx, Non2xx, Non2xx) :
        latest \in {TransportError, Non2xx, Fetched(None)}}

\* the bundle published at a timestamp
BundleRulesets(ts) ==
    IF ts = 1 THEN <<JsonChartAlt>> ELSE <<JsonChartAlt, JsonFakeWww>>
GoodBundle(ts) ==
    Gzip(JsonText(RulesetsBundle(Some(ts), Some(BundleRulesets(ts)))))

\* correctly signed payloads: the bundle, and bundles that do not decode
\* or carry another timestamp or none, or no "rulesets"
SignedRulesetPayloads(ts) ==
    {GoodBundle(ts), NotGzip, Gzip(NotJsonText), GoodBundle(ts + 1),
     Gzip(JsonText(RulesetsBundle(None, Some(BundleRulesets(ts))))),
     Gzip(JsonText(RulesetsBundle(Some(ts), None)))}

\* signatures that are missing, made with another key, made over other
\* bytes, or malformed
BadSignatures(key, other_payload) ==
    {TransportError, Non2xx, Fetched(Signature("KeyOther", other_payload)),
     Fetched(Signature(key, other_payload)), Fetched(MalformedSignature)}

RulesetRemotesAt(uc, ts) ==
    {Remote(Fetched(Some(ts)), Fetched(Signature(uc.key, payload)),
            Fetched(payload), Non2xx) : payload \in SignedRulesetPayloads(ts)}
    \cup {Remote(Fetched(Some(ts)), signature, Fetched(GoodBundle(ts)), Non2xx) :
              signature \in BadSignatures(uc.key, GoodBundle(ts + 1))
                  \cup {Fetched(Signature("KeyOther", GoodBundle(ts)))}}
    \cup {Remote(Fetched(Some(ts)), Fetched(Signature(uc.key, GoodBundle(ts))),
                 payload, Non2xx) : payload \in {TransportError, Non2xx}}

\* the bloom filter published at a timestamp and its metadata
BloomBin(ts) == [bloom_bin |-> ts]
SipKeys == <<(<<1, 2>>), (<<3, 4>>)>>
GoodMetadata(ts) ==
    JsonText(BloomMetadata(Some(ts), Some(sha256(BloomBin(ts))), Some(8), Some(2),
                           Some(SipKeys)))

\* metadata whose "sip_keys" array is too short
ShortMetadata(ts, sip_keys) ==
    JsonText(BloomMetadata(Some(ts), Some(sha256(BloomBin(ts))), Some(8), Some(2),
                           Some(sip_keys)))

\* correctly signed metadata: the good one, and metadata that do not parse
\* or lack a field or carry another timestamp, or too few keys
SignedMetadata(ts) ==
    {GoodMetadata(ts), NotJsonText, GoodMetadata(ts + 1),
     ShortMetadata(ts, <<>>), ShortMetadata(ts, <<(<<1, 2>>)>>),
     JsonText(BloomMetadata(None, Some(sha256(BloomBin(ts))), Some(8), Some(2),
                            Some(SipKeys))),
     JsonText(BloomMetadata(Some(ts), None, Some(8), Some(2), Some(SipKeys))),
     JsonText(BloomMetadata(Some(ts), Some(sha256(BloomBin(ts))), None, Some(2),
                            Some(SipKeys))),
     JsonText(BloomMetadata(Some(ts), Some(sha256(BloomBin(ts))), Some(8), None,
                            Some(SipKeys))),
     JsonText(BloomMetadata(Some(ts), Some(sha256(BloomBin(ts))), Some(8), Some(2),
                            None))}

BloomRemotesAt(uc, ts) ==
    {Remote(Fetched(Some(ts)), Fetched(Signature(uc.key, metadata)),
            Fetched(metadata), Fetched(BloomBin(ts))) :
         metadata \in SignedMetadata(ts)}
    \cup {Remote(Fetched(Some(ts)), signature, Fetched(GoodMetadata(ts)),
                 Fetched(BloomBin(ts))) :
              signature \in BadSignatures(uc.key, GoodMetadata(ts + 1))
                  \cup {Fetched(Signature("KeyOther", GoodMetadata(ts)))}}
    \cup {Remote(Fetched(Some(ts)), Fetched(Signature(uc.key, GoodMetadata(ts))),
                 payload, Fetched(BloomBin(ts))) :
              payload \in {TransportError, Non2xx}}
    \cup {Remote(Fetched(Some(ts)), Fetched(Signature(uc.key, GoodMetadata(ts))),
                 Fetched(GoodMetadata(ts)), bloom) :
              bloom \in {TransportError, Non2xx, Fetched(BloomBin(ts + 1))}}

\* every answer the model lets the server of a channel give
Remotes(uc) ==
    NoLatest \cup UNION {IF uc.format = "RuleSets" THEN RulesetRemotesAt(uc, ts)
                         ELSE BloomRemotesAt(uc, ts) : ts \in Timestamps}

\* the good answer, and one with a signature made with another key
GoodRemote(uc, ts) ==
    IF uc.format = "RuleSets"
    THEN Remote(Fetched(Some(ts)), Fetched(Signature(uc.key, GoodBundle(ts))),
                Fetched(GoodBundle(ts)), Non2xx)
    ELSE Remote(Fetched(Some(ts)), Fetched(Signature(uc.key, GoodMetadata(ts))),
                Fetched(GoodMetadata(ts)), Fetched(BloomBin(ts)))
ForgedRemote(uc, ts) ==
    IF uc.format = "RuleSets"
    THEN Remote(Fetched(Some(ts)), Fetched(Signature("KeyOther", GoodBundle(ts))),
                Fetched(GoodBundle(ts)), Non2xx)
    ELSE Remote(Fetched(Some(ts)), Fetched(Signature("KeyOther", GoodMetadata(ts))),
                Fetched(GoodMetadata(ts)), Fetched(BloomBin(ts)))

\* a well-signed answer with the right timestamp that lacks "rulesets", or
\* has an empty "sip_keys"
IncompleteRemote(uc, ts) ==
    IF uc.format = "RuleSets"
    THEN Remote(Fetched(Some(ts)),
                Fetched(Signature(uc.key,
                                  Gzip(JsonText(RulesetsBundle(Some(ts), None))))),
                Fetched(Gzip(JsonText(RulesetsBundle(Some(ts), None)))), Non2xx)
    ELSE Remote(Fetched(Some(ts)),
                Fetched(Signature(uc.key, ShortMetadata(ts, <<>>))),
                Fetched(ShortMetadata(ts, <<>>)), Fetched(BloomBin(ts)))

\* the answers when two channels are checked in one tick
FewRemotes(uc) ==
    {Remote(Non2xx, Non2xx, Non2xx, Non2xx)}
        \cup {GoodRemote(uc, ts) : ts \in Timestamps}
        \cup {ForgedRemote(uc, ts) : ts \in Timestamps}
        \cup {IncompleteRemote(uc, ts) : ts \in Timestamps}

\* the answers of the servers of all channels in one tick, by channel name
RemoteChoices(channels) ==
    IF Len(channels) = 1
    THEN {(channels[1].name :> remote) : remote \in Remotes(channels[1])}
    ELSE {(channels[1].name :> r1) @@ (channels[2].name :> r2) :
              r1 \in FewRemotes(channels[1]), r2 \in FewRemotes(channels[2])}

(***************************************************************************)
(* Specifications.                                                         *)
(***************************************************************************)
\* the latest tick: its inputs, the store before it, whether a channel
\* was updated, whether the thread panicked; and whether the lock of the
\* store is poisoned
NoTick ==
    [count |-> 0, now |-> 0, remotes |-> EmptyMap, before |-> EmptyStorage,
     some_updated |-> FALSE, panicked |-> FALSE, poisoned |-> FALSE]
NoUpdater == [update_channels |-> <<>>, default_rulesets |-> None]

\* lock: the thread that holds the Mutex of the RuleSets, "" when it is
\* free; pc, rulesets_tuples, next: where the updater thread is in
\* perform_check and its locals; installed: the index as the latest
\* completed rebuild (or the construction) left it
NoThreads ==
    [lock |-> "", pc |-> "idle", rulesets_tuples |-> <<>>, next |-> 1,
     installed |-> <<>>]

NoLast ==
    [op |-> "new", input |-> InvalidInput, ret |-> None, recorded |-> FALSE,
     count_before |-> 0]

\* a store holding the settings that are set and nothing else
RECURSIVE with_bools(_, _)
with_bools(st, settings) ==
    IF settings = <<>> THEN st
    ELSE with_bools(IF Head(settings)[2] = None THEN st
                    ELSE set_bool(st, Key(Head(settings)[1]), Head(settings)[2][1]),
                    Tail(settings))

SettingsStorage(global_enabled, http_nowhere_on) ==
    with_bools(EmptyStorage, <<(<<"global_enabled", global_enabled>>),
                               (<<"http_nowhere_on", http_nowhere_on>>)>>)

OptionBool == {None, Some(TRUE), Some(FALSE)}

\* Rewriter::new over an empty index and any stored settings
Init ==
    /\ rulesets = RuleSets_new
    /\ \E g \in OptionBool, e \in OptionBool : storage = SettingsStorage(g, e)
    /\ rewrite_count = 0
    /\ rewrite_history = <<>>
    /\ cookie_host_safety_cache = <<>>
    /\ last = NoLast
    /\ log = <<>>
    /\ blooms = <<>>
    /\ updater = NoUpdater
    /\ tick = NoTick
    /\ threads = NoThreads

Ingest ==
    \E in \in IngestInputs :
        /\ IndexEntries(rulesets) < MaxIndexEntries
        /\ add_rulesets(in[1], in[2])

Call ==
    \E input \in UrlInputs :
        /\ Len(log) < MaxCalls
        /\ rewrite_url(input)

Next == Ingest \/ Call

Spec == Init /\ [][Next]_vars

\* the mock rulesets and FakeWww
MockIndexFakeWww ==
    add_all_from_serde_value(MockIndex, <<JsonFakeWww>>, ENABLE_MIXED_RULESETS,
                             RULE_ACTIVE_STATES, None)

\* Rewriter::new over the mock rulesets and FakeWww, EASE mode on: long runs
\* of calls for a URL that is upgraded and for one whose rewrite stays on
\* http
InitLoop ==
    /\ rulesets = MockIndexFakeWww
    /\ storage = SettingsStorage(None, Some(TRUE))
    /\ rewrite_count = 0
    /\ rewrite_history = <<>>
    /\ cookie_host_safety_cache = <<>>
    /\ last = NoLast
    /\ log = <<>>
    /\ blooms = <<>>
    /\ updater = NoUpdater
    /\ tick = NoTick
    /\ threads = NoThreads

CallLoop ==
    \E input \in LoopInputs :
        /\ Len(log) < MaxLoopCalls
        /\ rewrite_url(input)

NextLoop == CallLoop

SpecLoop == InitLoop /\ [][NextLoop]_vars

\* Rewriter::new over the mock rulesets, EASE mode on: runs of calls for
\* URLs that no ruleset rewrites
InitEase ==
    /\ rulesets = MockIndex
    /\ storage = SettingsStorage(None, Some(TRUE))
    /\ rewrite_count = 0
    /\ rewrite_history = <<>>
    /\ cookie_host_safety_cache = <<>>
    /\ last = NoLast
    /\ log = <<>>
    /\ blooms = <<>>
    /\ updater = NoUpdater
    /\ tick = NoTick
    /\ threads = NoThreads

CallEase ==
    \E input \in EaseInputs :
        /\ Len(log) < MaxEaseCalls
        /\ rewrite_url(input)

NextEase == CallEase

SpecEase == InitEase /\ [][NextEase]_vars

\* Settings::set_https_everywhere_enabled
set_https_everywhere_enabled(value) ==
    /\ storage' = set_bool(storage, Key("global_enabled"), value)
    /\ last' = [NoLast EXCEPT !.op = "set_https_everywhere_enabled"]
    /\ UNCHANGED <<rulesets, rewriter_vars, updater_vars>>

\* Settings::set_ease_mode_enabled
set_ease_mode_enabled(value) ==
    /\ storage' = set_bool(storage, Key("http_nowhere_on"), value)
    /\ last' = [NoLast EXCEPT !.op = "set_ease_mode_enabled"]
    /\ UNCHANGED <<rulesets, rewriter_vars, updater_vars>>

\* Rewriter::new over the mock rulesets and a store without settings; the
\* settings change between the calls
InitSettings ==
    /\ rulesets = MockIndex
    /\ storage = EmptyStorage
    /\ rewrite_count = 0
    /\ rewrite_history = <<>>
    /\ cookie_host_safety_cache = <<>>
    /\ last = NoLast
    /\ log = <<>>
    /\ blooms = <<>>
    /\ updater = NoUpdater
    /\ tick = NoTick
    /\ threads = NoThreads

CallSettings ==
    \E input \in LoopInputs :
        /\ Len(log) < MaxSettingsCalls
        /\ rewrite_url(input)

SetEnabled == \E value \in BOOLEAN : set_https_everywhere_enabled(value)

SetEase == \E value \in BOOLEAN : set_ease_mode_enabled(value)

NextSettings == CallSettings \/ SetEnabled \/ SetEase

SpecSettings == InitSettings /\ [][NextSettings]_vars

\* the rulesets of the cookie runs: one that upgrades maps.gstatic.com and
\* secures its cookies, one that names cookies of the domain and rewrites
\* its root only, one that is off by default
GstaticCookie ==
    JsonCookieRule(Some(TextRegex({MapsGstaticHost})),
                   Some(TextRegex({"some_google_cookie"})))

JsonGstatic ==
    JsonRuleSet(Some("Gstatic"), None, None,
        Some(<<JsonRule(TRIVIAL_REGEX, TRIVIAL_TO)>>),
        None, Some(<<GstaticCookie>>), Some(<<MapsGstaticHost>>))

JsonGstaticRoot ==
    JsonRuleSet(Some("GstaticRoot"), None, None,
        Some(<<JsonRule(Pattern({"http"}, TRUE, {MapsGstaticHost}, {"/"}),
                        Replacement("https", None))>>),
        None, Some(<<JsonCookieRule(None, None)>>), Some(<<MapsGstaticHost>>))

JsonGstaticOff ==
    JsonRuleSet(Some("GstaticOff"), Some("breaks the site"), None,
        Some(<<JsonRule(TRIVIAL_REGEX, TRIVIAL_TO)>>),
        None, Some(<<GstaticCookie>>), Some(<<MapsGstaticHost>>))

CookieIngestInputs == {JsonGstatic, JsonGstaticRoot, JsonGstaticOff, JsonKitten}
CookieDomains == {MapsGstaticHost, <<"">> \o MapsGstaticHost, ExampleHost}
CookieNames == {"some_google_cookie", "some_example_cookie"}
CookieUrlInputs == {ValidInput(KittenUrl), InvalidInput}

\* RuleSets::clear
clear ==
    /\ rulesets' = RuleSets_new
    /\ last' = [NoLast EXCEPT !.op = "clear"]
    /\ UNCHANGED <<storage, rewriter_vars, updater_vars>>

\* Rewriter::new over an empty index that is filled and cleared while
\* cookies are asked about; the extension may be switched off
InitCookies ==
    /\ rulesets = RuleSets_new
    /\ \E g \in {None, Some(FALSE)} : storage = SettingsStorage(g, None)
    /\ rewrite_count = 0
    /\ rewrite_history = <<>>
    /\ cookie_host_safety_cache = <<>>
    /\ last = NoLast
    /\ log = <<>>
    /\ blooms = <<>>
    /\ updater = NoUpdater
    /\ tick = NoTick
    /\ threads = NoThreads

IngestCookies ==
    \E json \in CookieIngestInputs :
        /\ IndexEntries(rulesets) < MaxCookieIndexEntries
        /\ add_rulesets(<<json>>, None)

ClearCookies == rulesets # RuleSets_new /\ clear

CookieCall ==
    \E domain \in CookieDomains, name \in CookieNames :
        should_secure_cookie(domain, name)

CallCookies ==
    \E input \in CookieUrlInputs :
        /\ Len(log) < MaxCookieUrlCalls
        /\ rewrite_url(input)

NextCookies == IngestCookies \/ ClearCookies \/ CookieCall \/ CallCookies

SpecCookies == InitCookies /\ [][NextCookies]_vars

\* the hosts looked up and the targets indexed in the lookup runs
FooChartHost == <<"foo">> \o ChartHost
Host255 == [i \in 1..16 |-> "freerangekitten"]
Host271 == [i \in 1..17 |-> "freerangekitten"]
DotDotHost == <<"foo", "", "com">>
EmptyHost == <<"">>

LookupHosts ==
    {FooChartHost, ChartHost, <<"com">>, Host255, Host271, DotDotHost, EmptyHost}

LookupTargets ==
    {FooChartHost, <<"foo", "chart", "googleapis", "*">>,
     <<"*", "chart", "googleapis", "com">>, GoogleApisTarget, <<"*", "com">>,
     <<"foo", "*", "googleapis", "com">>, <<"*", "freerangekitten">>,
     DotDotHost, EmptyHost}

\* a ruleset object with a name and one target
JsonTargetOnly(name, target) ==
    JsonRuleSet(Some(name), None, None, None, None, None, Some(<<target>>))

\* a call of RuleSets::potentially_applicable by the embedding program
lookup(host) ==
    /\ last' = [op |-> "potentially_applicable",
                input |-> [valid |-> TRUE, url |-> None, host |-> host],
                ret |-> Some(potentially_applicable(rulesets, host)),
                recorded |-> FALSE, count_before |-> rewrite_count]
    /\ UNCHANGED <<rulesets, storage, rewriter_vars, updater_vars>>

\* RuleSets::new, then rulesets added and hosts looked up
InitLookup ==
    /\ rulesets = RuleSets_new
    /\ storage = EmptyStorage
    /\ rewrite_count = 0
    /\ rewrite_history = <<>>
    /\ cookie_host_safety_cache = <<>>
    /\ last = NoLast
    /\ log = <<>>
    /\ blooms = <<>>
    /\ updater = NoUpdater
    /\ tick = NoTick
    /\ threads = NoThreads

IngestLookup ==
    \E name \in {"a", "b"}, target \in LookupTargets :
        /\ IndexEntries(rulesets) < MaxLookupIndexEntries
        /\ add_rulesets(<<JsonTargetOnly(name, target)>>, None)

Lookup == \E host \in LookupHosts : lookup(host)

NextLookup == IngestLookup \/ Lookup

SpecLookup == InitLookup /\ [][NextLookup]_vars

\* the cookie domains of the long runs: the binary digits of a number as
\* labels, under com
RECURSIVE Bits(_)
Bits(n) ==
    IF n < 2 THEN <<IF n = 0 THEN "0" ELSE "1">>
    ELSE Bits(n \div 2) \o <<IF n % 2 = 0 THEN "0" ELSE "1">>

NumberedDomain(n) == Bits(n) \o <<"com">>

RECURSIVE NumberOf(_, _)
NumberOf(domain, i) ==
    IF i = 0 THEN 0
    ELSE 2 * NumberOf(domain, i - 1) + (IF domain[i] = "1" THEN 1 ELSE 0)

\* the highest number among the domains in the cache
RECURSIVE HighestCached(_, _)
HighestCached(cache, i) ==
    IF i > Len(cache) THEN 0
    ELSE LET n == NumberOf(cache[i].key, Len(cache[i].key) - 1)
             m == HighestCached(cache, i + 1)
         IN  IF n > m THEN n ELSE m

\* a ruleset for every host under com that secures every cookie
JsonAnyCom ==
    JsonRuleSet(Some("AnyCom"), None, None,
        Some(<<JsonRule(TRIVIAL_REGEX, TRIVIAL_TO)>>),
        None, Some(<<JsonCookieRule(None, None)>>), Some(<<(<<"*", "com">>)>>))

\* Rewriter::new over rulesets for freerangekitten.com and *.com; long runs
\* of calls: a URL is requested over and over (another one may come
\* first), and cookies of one new domain after the other are
\* asked about
InitCaps ==
    /\ rulesets = add_all_from_serde_value(RuleSets_new, <<JsonKitten, JsonAnyCom>>,
                                           ENABLE_MIXED_RULESETS,
                                           RULE_ACTIVE_STATES, None)
    /\ storage = EmptyStorage
    /\ rewrite_count = 0
    /\ rewrite_history = <<>>
    /\ cookie_host_safety_cache = <<>>
    /\ last = NoLast
    /\ log = <<>>
    /\ blooms = <<>>
    /\ updater = NoUpdater
    /\ tick = NoTick
    /\ threads = NoThreads

CallCaps ==
    /\ Len(log) < MaxCapCalls
    /\ \/ rewrite_url(ValidInput(KittenUrl))
       \/ Len(log) < MaxMixedCalls /\ rewrite_url(ValidInput(PlainUrl("http", OnionHost, "/")))

CookieCaps ==
    \E asked \in {HighestCached(cookie_host_safety_cache, 1)} :
        /\ asked < MaxCapDomains
        /\ should_secure_cookie(NumberedDomain(asked + 1), "some_google_cookie")

NextCaps == CallCaps \/ CookieCaps

SpecCaps == InitCaps /\ [][NextCaps]_vars

\* current_timestamp() at the tick after count ticks: the clock reads one
\* more at every tick
current_timestamp(count) == count + 1

(***************************************************************************)
(* UpdateChannel::from(&Value).  A JSON value is an object, a record of    *)
(* optional members, or something else; a member has a type and a text.    *)
(***************************************************************************)
JsonString(text) == [type |-> "String", value |-> text]
JsonNumber(text) == [type |-> "Number", value |-> text]
JsonBool(b) == [type |-> "Bool", value |-> IF b THEN "true" ELSE "false"]

JsonObject(name, update_path_prefix, scope, replaces_default_rulesets, pem) ==
    [object |-> TRUE, name |-> name, update_path_prefix |-> update_path_prefix,
     scope |-> scope, replaces_default_rulesets |-> replaces_default_rulesets,
     pem |-> pem]
JsonNotAnObject ==
    [object |-> FALSE, name |-> None, update_path_prefix |-> None,
     scope |-> None, replaces_default_rulesets |-> None, pem |-> None]

\* the member is there and is a string
IsString(member) == member # None /\ member[1].type = "String"

\* PKey::public_key_from_pem: the key of a well-formed PEM text
PemA == "-----BEGIN PUBLIC KEY----- A"
public_key_from_pem(pem) == IF pem = PemA THEN Some("KeyA") ELSE None

\* what a construction yields: a channel, or a panic and no channel
Constructed(channel) == [panic |-> FALSE, channel |-> Some(channel)]
ConstructionPanics == [panic |-> TRUE, channel |-> None]

\* a construction that takes an absent update_path_prefix for an empty one
UpdateChannel_from_lenient(json_value) ==
    IF ~json_value.object \/ ~IsString(json_value.name)
          \/ ~IsString(json_value.pem)
          \/ public_key_from_pem(json_value.pem[1].value) = None
    THEN ConstructionPanics
    ELSE Constructed(UpdateChannel(
             json_value.name[1].value,
             public_key_from_pem(json_value.pem[1].value)[1],
             IF IsString(json_value.update_path_prefix)
             THEN json_value.update_path_prefix[1].value ELSE "",
             IF IsString(json_value.scope) /\ json_value.scope[1].value # ""
             THEN Some(json_value.scope[1].value) ELSE None,
             json_value.replaces_default_rulesets = Some(JsonBool(TRUE)),
             "RuleSets"))

\* impl From<&Value> for UpdateChannel (the source reads no format member)
UpdateChannel_from(json_value) ==
    IF ~json_value.object THEN ConstructionPanics
    ELSE IF ~IsString(json_value.name) THEN ConstructionPanics
    ELSE IF ~IsString(json_value.update_path_prefix) THEN ConstructionPanics
    ELSE IF ~IsString(json_value.pem) THEN ConstructionPanics
    ELSE IF public_key_from_pem(json_value.pem[1].value) = None
    THEN ConstructionPanics
    ELSE Constructed(UpdateChannel(
             json_value.name[1].value,
             public_key_from_pem(json_value.pem[1].value)[1],
             json_value.update_path_prefix[1].value,
             IF IsString(json_value.scope) /\ json_value.scope[1].value # ""
             THEN Some(json_value.scope[1].value) ELSE None,
             json_value.replaces_default_rulesets = Some(JsonBool(TRUE)),
             "RuleSets"))

Descriptors ==
    {JsonObject(name, update_path_prefix, scope, replaces_default_rulesets, pem) :
        name \in {None, Some(JsonNumber("1")), Some(JsonString("A"))},
        update_path_prefix \in {None, Some(JsonString("https://a.example/"))},
        scope \in {None, Some(JsonString("")), Some(JsonNumber("1")),
                   Some(JsonString("^https?://a\\.example/"))},
        replaces_default_rulesets \in {None, Some(JsonBool(TRUE)),
                                       Some(JsonString("true"))},
        pem \in {None, Some(JsonNumber("1")), Some(JsonString("Not a pem value")),
                 Some(JsonString(PemA))}}

\* the embedding program constructs a channel from a JSON value
construct_channel(json_value) ==
    /\ last' = [op |-> "UpdateChannel_from",
                input |-> [valid |-> FALSE, url |-> None, json_value |-> json_value],
                ret |-> UpdateChannel_from(json_value),
                recorded |-> FALSE, count_before |-> rewrite_count]
    /\ UNCHANGED <<rulesets, storage, rewriter_vars, updater_vars>>

InitChannels ==
    /\ rulesets = RuleSets_new
    /\ storage = EmptyStorage
    /\ rewrite_count = 0
    /\ rewrite_history = <<>>
    /\ cookie_host_safety_cache = <<>>
    /\ last = NoLast
    /\ log = <<>>
    /\ blooms = <<>>
    /\ updater = NoUpdater
    /\ tick = NoTick
    /\ threads = NoThreads

ConstructFromObject == \E json_value \in Descriptors : construct_channel(json_value)
ConstructFromOther == construct_channel(JsonNotAnObject)

NextChannels == ConstructFromObject \/ ConstructFromOther

SpecChannels == InitChannels /\ [][NextChannels]_vars

(***************************************************************************)
(* Ingestion with every combination of default_off, platform, the          *)
(* mixed-content switch and the map of active states.                      *)
(***************************************************************************)
IngestTargetA == <<"a", "example", "com">>
IngestTargetB == <<"*", "example", "com">>

\* a ruleset object of the family: "a" has one target, "b" has two, an
\* object without a name has one
FamilyObject(name, default_off, platform) ==
    JsonRuleSet(name, default_off, platform,
        Some(<<JsonRule(TRIVIAL_REGEX, TRIVIAL_TO)>>), None, None,
        Some(IF name = Some("b") THEN <<IngestTargetA, IngestTargetB>>
             ELSE <<IngestTargetA>>))

FamilyObjects ==
    {FamilyObject(name, default_off, platform) :
        name \in {None, Some("a"), Some("b")},
        default_off \in {None, Some("user rule"), Some("breaks the site")},
        platform \in {None, Some("mixedcontent"), Some("firefox")}}

\* the arrays: one object of the family; two objects that share a target,
\* with and without names; an object without targets
FamilyArrays ==
    {<<object>> : object \in FamilyObjects}
        \cup {<<FamilyObject(first, None, None),
                FamilyObject(second, Some("breaks the site"), None)>> :
                  first \in {None, Some("a"), Some("b")},
                  second \in {None, Some("a"), Some("b")}}
        \cup {<<JsonRuleSet(Some("a"), None, None, None, None, None, None)>>}

ActiveStatesMaps == {RULE_ACTIVE_STATES, ("a" :> FALSE), ("a" :> TRUE)}

\* a call of RuleSets::add_all_from_serde_value by the embedding program
ingest(json, enable_mixed_rulesets, ruleset_active_states, scope) ==
    /\ rulesets' = add_all_from_serde_value(rulesets, json, enable_mixed_rulesets,
                                            ruleset_active_states, scope)
    /\ last' = [op |-> "add_all_from_serde_value",
                input |-> [valid |-> FALSE, url |-> None, json |-> json,
                           enable_mixed_rulesets |-> enable_mixed_rulesets,
                           ruleset_active_states |-> ruleset_active_states,
                           scope |-> scope],
                ret |-> None, recorded |-> FALSE, count_before |-> rewrite_count]
    /\ UNCHANGED <<storage, rewriter_vars, updater_vars>>

InitIngest ==
    /\ rulesets = RuleSets_new
    /\ storage = EmptyStorage
    /\ rewrite_count = 0
    /\ rewrite_history = <<>>
    /\ cookie_host_safety_cache = <<>>
    /\ last = NoLast
    /\ log = <<>>
    /\ blooms = <<>>
    /\ updater = NoUpdater
    /\ tick = NoTick
    /\ threads = NoThreads

IngestFamily ==
    \E json \in FamilyArrays, enable_mixed_rulesets \in BOOLEAN,
       ruleset_active_states \in ActiveStatesMaps :
        /\ IndexEntries(rulesets) < MaxIngestEntries
        /\ ingest(json, enable_mixed_rulesets, ruleset_active_states, None)

\* the (from, to) pairs of rules: "^http:" and "https:", and others
FromTexts ==
    {TRIVIAL_REGEX, HostRegex("http", KittenHost),
     Pattern({"https"}, FALSE, AnyHost, AnyPath)}
ToTexts ==
    {TRIVIAL_TO, Replacement("https", Some(KittenHost)), Replacement("http", None)}

\* rulesets whose first rule is any of the pairs
IngestRules ==
    \E from \in FromTexts, to \in ToTexts, name \in {"a", "b"} :
        /\ IndexEntries(rulesets) < MaxIngestEntries
        /\ ingest(<<JsonRuleSet(Some(name), None, None,
                        Some(<<JsonRule(from, to),
                               JsonRule(TRIVIAL_REGEX, TRIVIAL_TO)>>),
                        None, None, Some(<<IngestTargetA>>))>>,
                  ENABLE_MIXED_RULESETS, RULE_ACTIVE_STATES, None)

NextIngest == IngestFamily \/ IngestRules

SpecIngest == InitIngest /\ [][NextIngest]_vars

(***************************************************************************)
(* perform_check on its own thread, step by step, next to the calls of a   *)
(* Rewriter on another thread.  rewrite_url and should_secure_cookie lock  *)
(* the RuleSets once, for potentially_applicable, and read the index       *)
(* nowhere else: each is one step, taken when the lock can be had.         *)
(***************************************************************************)
\* a lock that is had whoever holds it
lock_unguarded(holder) == TRUE

\* Mutex::lock returns once no thread holds the lock
lock(holder) == holder = ""

\* perform_check up to the end of its two loops
check_the_channels(remotes) ==
    \E checked \in {check_bloom_channels(
                        check_channels(
                            [storage |->
                                 set_int(storage, Key("last-checked"),
                                         current_timestamp(tick.count)),
                             some_updated |-> FALSE, panicked |-> FALSE],
                            updater.update_channels, 1, "RuleSets", remotes,
                            unwrap_or(get_int(storage, Key("extension-timestamp")),
                                      0)),
                        remotes)} :
        /\ threads.pc = "idle"
        /\ storage' = checked.storage
        /\ tick' = [count |-> tick.count + 1, now |-> current_timestamp(tick.count),
                    remotes |-> remotes, before |-> storage,
                    some_updated |-> checked.some_updated,
                    panicked |-> FALSE, poisoned |-> FALSE]
        /\ threads' = [threads EXCEPT
                          !.pc = IF checked.some_updated THEN "closures"
                                 ELSE "idle"]
        /\ UNCHANGED <<rulesets, blooms, rewriter_vars, updater, last>>

\* apply_stored_rulesets: rulesets_closure for every channel
rebuild_closures ==
    /\ threads.pc = "closures"
    /\ threads' = [threads EXCEPT
                      !.pc = "lock",
                      !.rulesets_tuples =
                          rulesets_tuples(storage, updater.update_channels, 1),
                      !.next = 1]
    /\ UNCHANGED <<rulesets, storage, blooms, rewriter_vars, updater, last, tick>>

\* let mut rs = self.rulesets.lock().unwrap()
rebuild_lock ==
    /\ threads.pc = "lock"
    /\ lock(threads.lock)
    /\ threads' = [threads EXCEPT !.pc = "clear", !.lock = "updater"]
    /\ UNCHANGED <<rulesets, storage, blooms, rewriter_vars, updater, last, tick>>

\* rs.clear()
rebuild_clear ==
    /\ threads.pc = "clear"
    /\ rulesets' = RuleSets_new
    /\ threads' = [threads EXCEPT !.pc = "add"]
    /\ UNCHANGED <<storage, blooms, rewriter_vars, updater, last, tick>>

\* one round of the loop over rulesets_tuples
rebuild_add ==
    /\ threads.pc = "add"
    /\ threads.next <= Len(threads.rulesets_tuples)
    /\ rulesets' = add_all_from_serde_value(
                       rulesets, threads.rulesets_tuples[threads.next][1],
                       ENABLE_MIXED_RULESETS, RULE_ACTIVE_STATES,
                       threads.rulesets_tuples[threads.next][2])
    /\ threads' = [threads EXCEPT !.next = @ + 1]
    /\ UNCHANGED <<storage, blooms, rewriter_vars, updater, last, tick>>

\* after the loop: the default rulesets, unless replaced or absent
rebuild_defaults ==
    /\ threads.pc = "add"
    /\ threads.next > Len(threads.rulesets_tuples)
    /\ rulesets' =
           IF /\ \A i \in DOMAIN threads.rulesets_tuples :
                     ~threads.rulesets_tuples[i][3]
              /\ updater.default_rulesets # None
           THEN add_all_from_json_string(rulesets, updater.default_rulesets[1],
                                         ENABLE_MIXED_RULESETS, RULE_ACTIVE_STATES,
                                         None)
           ELSE rulesets
    /\ threads' = [threads EXCEPT !.pc = "blooms"]
    /\ UNCHANGED <<storage, blooms, rewriter_vars, updater, last, tick>>

\* the blooms are cleared and rebuilt
rebuild_blooms ==
    /\ threads.pc = "blooms"
    /\ blooms' = rebuilt_blooms(storage, updater.update_channels, 1)
    /\ threads' = [threads EXCEPT !.pc = "return"]
    /\ UNCHANGED <<rulesets, storage, rewriter_vars, updater, last, tick>>

\* apply_stored_rulesets returns: the guard rs is dropped
rebuild_return ==
    /\ threads.pc = "return"
    /\ threads' = [threads EXCEPT !.pc = "idle", !.lock = "",
                                  !.installed = rulesets]
    /\ UNCHANGED <<rulesets, storage, blooms, rewriter_vars, updater, last, tick>>

\* the servers answer nothing or a good update
ConcurrentRemoteChoices ==
    {(ChannelB.name :> r1) @@ (ChannelA.name :> r2) :
        r1 \in {Remote(Non2xx, Non2xx, Non2xx, Non2xx)}
                   \cup {GoodRemote(ChannelB, ts) : ts \in Timestamps},
        r2 \in {Remote(Non2xx, Non2xx, Non2xx, Non2xx)}
                   \cup {GoodRemote(ChannelA, ts) : ts \in Timestamps}}

ConcurrentInputs == {ValidInput(Chart123Url), ValidInput(KittenUrl)}

\* the index holds the default rulesets; the channels are a scoped one and
\* one that replaces the default rulesets
InitConcurrent ==
    /\ rulesets = add_all_from_json_string(RuleSets_new, DefaultRulesets[1],
                      ENABLE_MIXED_RULESETS, RULE_ACTIVE_STATES, None)
    /\ storage = EmptyStorage
    /\ rewrite_count = 0
    /\ rewrite_history = <<>>
    /\ cookie_host_safety_cache = <<>>
    /\ last = NoLast
    /\ log = <<>>
    /\ blooms = <<>>
    /\ updater = [update_channels |-> <<ChannelB, ChannelA>>,
                  default_rulesets |-> DefaultRulesets]
    /\ tick = NoTick
    /\ threads = [NoThreads EXCEPT !.installed = rulesets]

CheckTheChannels ==
    \E remotes \in ConcurrentRemoteChoices :
        /\ tick.count < MaxTicks
        /\ check_the_channels(remotes)

Rebuild ==
    \/ rebuild_closures
    \/ rebuild_lock
    \/ rebuild_clear
    \/ rebuild_add
    \/ rebuild_defaults
    \/ rebuild_blooms
    \/ rebuild_return

\* a call of the Rewriter while perform_check is under way
CallConcurrent ==
    \E input \in ConcurrentInputs :
        /\ threads.pc # "idle"
        /\ Len(log) < MaxConcurrentCalls
        /\ lock(threads.lock)
        /\ rewrite_url(input)

CookieConcurrent ==
    /\ threads.pc # "idle"
    /\ lock(threads.lock)
    /\ should_secure_cookie(ChartHost, "some_google_cookie")

NextConcurrent == CheckTheChannels \/ Rebuild \/ CallConcurrent \/ CookieConcurrent

SpecConcurrent == InitConcurrent /\ [][NextConcurrent]_vars

\* Updater::new over a store that may hold the timestamp of the bundled
\* rulesets; the index holds the bundled rulesets
InitUpdater ==
    /\ rulesets = add_all_from_json_string(RuleSets_new, DefaultRulesets[1],
                      ENABLE_MIXED_RULESETS, RULE_ACTIVE_STATES, None)
    /\ storage \in {EmptyStorage,
                    set_int(EmptyStorage, Key("extension-timestamp"), MaxTimestamp)}
    /\ rewrite_count = 0
    /\ rewrite_history = <<>>
    /\ cookie_host_safety_cache = <<>>
    /\ last = NoLast
    /\ log = <<>>
    /\ blooms = <<>>
    /\ \E channels \in ChannelLists :
           updater = [update_channels |-> channels,
                      default_rulesets |-> DefaultRulesets]
    /\ tick = NoTick
    /\ threads = NoThreads

Tick ==
    \E remotes \in RemoteChoices(updater.update_channels) :
        /\ tick.count < MaxTicks
        /\ perform_check(current_timestamp(tick.count), remotes)

NextUpdater == Tick

SpecUpdater == InitUpdater /\ [][NextUpdater]_vars

\* Updater::clear_replacement_update_channels on the store: for every
\* channel that replaces the default rulesets, 0 under
\* 'rulesets-timestamp: <ch>' and 'rulesets-stored-timestamp: <ch>', and
\* the empty string, which is no JSON text, under 'rulesets: <ch>'
RECURSIVE cleared_channels(_, _, _)
cleared_channels(st, channels, i) ==
    IF i > Len(channels) THEN st
    ELSE cleared_channels(
             IF channels[i].replaces_default_rulesets
             THEN set_string(
                      set_int(set_int(st,
                          ChannelKey("rulesets-timestamp", channels[i].name), 0),
                          ChannelKey("rulesets-stored-timestamp", channels[i].name), 0),
                      ChannelKey("rulesets", channels[i].name), NotJsonText)
             ELSE st,
             channels, i + 1)

\* Updater::clear_replacement_update_channels; with a poisoned store the
\* first lock().unwrap() panics
clear_replacement_update_channels ==
    /\ storage' = IF tick.poisoned THEN storage
                  ELSE cleared_channels(storage, updater.update_channels, 1)
    /\ last' = [NoLast EXCEPT !.op = "clear_replacement_update_channels"]
    /\ UNCHANGED <<rulesets, rewriter_vars, updater_vars>>

\* the embedding program clears the channels after a tick
ClearChannels ==
    /\ last.op = "perform_check"
    /\ clear_replacement_update_channels

NextClear == Tick \/ ClearChannels

(***************************************************************************)
(* Updater::time_to_next_check.  usize and isize have UsizeBits bits here: *)
(* a usize is in 0..UsizeModulus-1, an isize in -UsizeModulus/2 ..         *)
(* UsizeModulus/2-1.  An overflowing subtraction panics in a build with    *)
(* overflow checks and wraps in a build without them.                      *)
(***************************************************************************)
UsizeBits == 4
UsizeModulus == 2 ^ UsizeBits

\* x as isize, i as usize
as_isize(x) == IF x >= UsizeModulus \div 2 THEN x - UsizeModulus ELSE x
as_usize(i) == i % UsizeModulus

\* isize values are these
is_isize(i) == i >= -(UsizeModulus \div 2) /\ i < UsizeModulus \div 2

\* an isize result wrapped into the range
wrap_isize(i) == as_isize(i % UsizeModulus)

Returned(value) == [panic |-> FALSE, value |-> Some(value)]
Panicked == [panic |-> TRUE, value |-> None]

max(a, b) == IF a >= b THEN a ELSE b

\* Updater::time_to_next_check when the clock reads now
time_to_next_check(st, periodicity, now, overflow_checks) ==
    LET last_checked == unwrap_or(get_int(st, Key("last-checked")), 0)
        secs_since_last_checked == as_usize(now - last_checked)
        difference == as_isize(periodicity) - as_isize(secs_since_last_checked)
    IN  IF overflow_checks /\ now < last_checked THEN Panicked
        ELSE IF overflow_checks /\ ~is_isize(difference) THEN Panicked
        ELSE Returned(as_usize(max(0, wrap_isize(difference))))

\* the clock counts the seconds since 1970 and a periodicity is a number of
\* seconds: both are far below isize::MAX; a stored value is any usize
ClockValues == 0..(UsizeModulus \div 2 - 1)
Periodicities == {0, 3, UsizeModulus \div 2 - 1}

\* a call of time_to_next_check by the embedding program
ask_time_to_next_check(now, overflow_checks) ==
    /\ last' = [op |-> "time_to_next_check",
                input |-> [valid |-> FALSE, url |-> None, now |-> now,
                           last_checked |-> get_int(storage, Key("last-checked")),
                           after_check |-> last.op = "perform_check"
                                               /\ tick.now = now],
                ret |-> time_to_next_check(storage, updater.periodicity, now,
                                           overflow_checks),
                recorded |-> FALSE, count_before |-> rewrite_count]
    /\ UNCHANGED <<rulesets, storage, rewriter_vars, updater_vars>>

\* Updater::new with a periodicity, over a store that may hold the time of
\* an earlier check
InitTimer ==
    /\ rulesets = add_all_from_json_string(RuleSets_new, DefaultRulesets[1],
                      ENABLE_MIXED_RULESETS, RULE_ACTIVE_STATES, None)
    /\ \E last_checked \in {None} \cup {Some(t) : t \in {0, 5, UsizeModulus - 1}} :
           storage = IF last_checked = None THEN EmptyStorage
                     ELSE set_int(EmptyStorage, Key("last-checked"), last_checked[1])
    /\ rewrite_count = 0
    /\ rewrite_history = <<>>
    /\ cookie_host_safety_cache = <<>>
    /\ last = NoLast
    /\ log = <<>>
    /\ blooms = <<>>
    /\ \E periodicity \in Periodicities :
           updater = [update_channels |-> <<ChannelA>>,
                      default_rulesets |-> DefaultRulesets,
                      periodicity |-> periodicity]
    /\ tick = NoTick
    /\ threads = NoThreads

\* perform_check at any reading of the clock; the server has nothing new
TickTimer ==
    \E now \in ClockValues :
        /\ tick.count < MaxTimerTicks
        /\ perform_check(now, (ChannelA.name :> Remote(Non2xx, Non2xx, Non2xx, Non2xx)))

AskTimer ==
    \E now \in ClockValues, overflow_checks \in BOOLEAN :
        ask_time_to_next_check(now, overflow_checks)

NextTimer == TickTimer \/ AskTimer

SpecTimer == InitTimer /\ [][NextTimer]_vars

SpecClear == InitUpdater /\ [][NextClear]_vars

(***************************************************************************)
(* The mutexes.  Four threads: one in rewrite_url, one in                  *)
(* should_secure_cookie of another Rewriter over the same RuleSets, the    *)
(* embedding program calling setters of Settings, and one in               *)
(* perform_check.  A thread is at a place (pc); at some places it waits    *)
(* for a mutex, at the others it works and drops guards.                   *)
(*   threads.owner[m]   the thread holding mutex m, "" when it is free     *)
(*   threads.held[t]    the mutexes thread t holds, in order of locking    *)
(*   threads.used       what rewrite_url read: the two flags, candidates   *)
(*   threads.moments    the values (flags, candidates) that were current   *)
(*                      at some instant since rewrite_url was entered      *)
(*   threads.index      the Vec that should_secure_cookie materialised     *)
(***************************************************************************)
LockNames == {"Settings", "RuleSets", "Blooms", "Storage"}
ThreadNames == {"rewriter", "cookies", "embedder", "updater"}

\* the places of each thread, in the order of the code
Places(thread) ==
    CASE thread = "rewriter" ->
             <<"enabled", "enabled_settings", "enabled_storage", "ease",
               "ease_settings", "ease_storage", "candidates", "materialise",
               "regex", "done">>
      [] thread = "cookies" -> <<"candidates", "materialise", "regex", "done">>
      [] thread = "embedder" -> <<"set", "set_settings", "set_storage", "done">>
      [] thread = "updater" ->
             <<"last_checked", "last_checked_storage", "loops", "loops_storage",
               "closure", "closure_storage", "rulesets", "rulesets_locked",
               "blooms", "blooms_locked", "bloom_closure", "return", "done">>

PlaceAfter(thread, pc) ==
    Places(thread)[1 + CHOOSE i \in DOMAIN Places(thread) : Places(thread)[i] = pc]

\* a rewrite_url that takes the Storage mutex before the Settings mutex
WantedLock_swapped(thread, pc) ==
    CASE thread = "rewriter" /\ pc \in {"enabled", "ease"} -> "Storage"
      [] thread = "rewriter" /\ pc \in {"enabled_settings", "ease_settings"}
             -> "Settings"
      [] thread = "rewriter" /\ pc = "candidates" -> "RuleSets"
      [] thread = "cookies" /\ pc = "candidates" -> "RuleSets"
      [] thread = "embedder" /\ pc = "set" -> "Settings"
      [] thread = "embedder" /\ pc = "set_settings" -> "Storage"
      [] thread = "updater" /\ pc \in {"last_checked", "loops", "closure"}
             -> "Storage"
      [] thread = "updater" /\ pc = "rulesets" -> "RuleSets"
      [] thread = "updater" /\ pc = "blooms" -> "Blooms"
      [] thread = "updater" /\ pc = "blooms_locked" -> "Storage"
      [] OTHER -> ""

\* a bloom_closure that locks the RuleSets again
WantedLock_reacquiring(thread, pc) ==
    CASE thread = "rewriter" /\ pc \in {"enabled", "ease"} -> "Settings"
      [] thread = "rewriter" /\ pc \in {"enabled_settings", "ease_settings"}
             -> "Storage"
      [] thread = "rewriter" /\ pc = "candidates" -> "RuleSets"
      [] thread = "cookies" /\ pc = "candidates" -> "RuleSets"
      [] thread = "embedder" /\ pc = "set" -> "Settings"
      [] thread = "embedder" /\ pc = "set_settings" -> "Storage"
      [] thread = "updater" /\ pc \in {"last_checked", "loops", "closure"}
             -> "Storage"
      [] thread = "updater" /\ pc = "rulesets" -> "RuleSets"
      [] thread = "updater" /\ pc = "blooms" -> "Blooms"
      [] thread = "updater" /\ pc = "blooms_locked" -> "RuleSets"
      [] OTHER -> ""

\* the mutex that a thread locks at a place, "" where it locks none:
\* self.settings.lock() and, inside the accessor, self.storage.lock();
\* self.rulesets.lock(); in perform_check self.storage.lock() for
\* 'last-checked', in the loops and in rulesets_closure, then
\* self.rulesets.lock(), self.blooms.lock() and, in bloom_closure,
\* self.storage.lock()
WantedLock(thread, pc) ==
    CASE thread = "rewriter" /\ pc \in {"enabled", "ease"} -> "Settings"
      [] thread = "rewriter" /\ pc \in {"enabled_settings", "ease_settings"}
             -> "Storage"
      [] thread = "rewriter" /\ pc = "candidates" -> "RuleSets"
      [] thread = "cookies" /\ pc = "candidates" -> "RuleSets"
      [] thread = "embedder" /\ pc = "set" -> "Settings"
      [] thread = "embedder" /\ pc = "set_settings" -> "Storage"
      [] thread = "updater" /\ pc \in {"last_checked", "loops", "closure"}
             -> "Storage"
      [] thread = "updater" /\ pc = "rulesets" -> "RuleSets"
      [] thread = "updater" /\ pc = "blooms" -> "Blooms"
      [] thread = "updater" /\ pc = "blooms_locked" -> "Storage"
      [] OTHER -> ""

\* the URL of the rewrite_url call, the cookie of the other call
LockedUrl == KittenUrl
LockedHostname == hostname_of(LockedUrl.host[1])
LockedCookieDomain == KittenHost
LockedCookieName == "some_cookie"

\* the flags and the candidates as they are current
Moment(st, index) ==
    [global_enabled |-> Some(get_https_everywhere_enabled_or(st, TRUE)),
     http_nowhere_on |-> Some(get_ease_mode_enabled_or(st, FALSE)),
     candidates |-> Some(potentially_applicable(index, LockedHostname))]

\* the moments when the shared state becomes (st, index) while the call
\* of rewrite_url is under way
moments_with(st, index) ==
    IF threads.pc["rewriter"] = "done" THEN threads.moments
    ELSE threads.moments \cup {Moment(st, index)}

\* Mutex::lock by a thread at a place where it locks
acquire(thread) ==
    /\ WantedLock(thread, threads.pc[thread]) # ""
    /\ lock(threads.owner[WantedLock(thread, threads.pc[thread])])
    /\ threads' = [threads EXCEPT
                      !.owner[WantedLock(thread, threads.pc[thread])] = thread,
                      !.held[thread] =
                          Append(@, WantedLock(thread, threads.pc[thread])),
                      !.pc[thread] = PlaceAfter(thread, threads.pc[thread])]
    /\ last' = [op |-> "lock",
                input |-> [valid |-> FALSE, url |-> None, thread |-> thread,
                           lock |-> WantedLock(thread, threads.pc[thread]),
                           held |-> threads.held[thread]],
                ret |-> None, recorded |-> FALSE, count_before |-> rewrite_count]
    /\ UNCHANGED <<rulesets, storage, rewriter_vars, blooms, updater, tick>>

\* the threads record after a thread dropped guards and went on
dropped(th, thread, locks, pc) ==
    [th EXCEPT
        !.owner = [m \in LockNames |-> IF m \in locks THEN "" ELSE th.owner[m]],
        !.held[thread] = SelectSeq(@, LAMBDA m : m \notin locks),
        !.pc[thread] = pc]

\* rewrite_url: the flag global_enabled is read; the guards of the
\* condition are dropped; NoOp when the flag is off
read_enabled ==
    /\ threads.pc["rewriter"] = "enabled_storage"
    /\ threads' =
           dropped([threads EXCEPT
                       !.used.global_enabled =
                           Some(get_https_everywhere_enabled_or(storage, TRUE))],
                   "rewriter", {"Settings", "Storage"},
                   IF get_https_everywhere_enabled_or(storage, TRUE)
                   THEN "ease" ELSE "done")
    /\ last' = [op |-> "rewrite_url", input |-> ValidInput(LockedUrl),
                ret |-> IF get_https_everywhere_enabled_or(storage, TRUE)
                        THEN None ELSE Some(NoOp),
                recorded |-> FALSE, count_before |-> rewrite_count]
    /\ UNCHANGED <<rulesets, storage, rewriter_vars, blooms, updater, tick>>

\* rewrite_url: let http_nowhere_on = ...
read_ease ==
    /\ threads.pc["rewriter"] = "ease_storage"
    /\ threads' =
           dropped([threads EXCEPT
                       !.used.http_nowhere_on =
                           Some(get_ease_mode_enabled_or(storage, FALSE))],
                   "rewriter", {"Settings", "Storage"}, "candidates")
    /\ UNCHANGED <<rulesets, storage, rewriter_vars, blooms, updater, tick, last>>

\* rewrite_url: potentially_applicable under the guard of the for loop
materialise_candidates ==
    /\ threads.pc["rewriter"] = "materialise"
    /\ threads' = [threads EXCEPT
                      !.used.candidates =
                          Some(potentially_applicable(rulesets, LockedHostname)),
                      !.pc["rewriter"] = "regex"]
    /\ UNCHANGED <<rulesets, storage, rewriter_vars, blooms, updater, tick, last>>

\* rewrite_url: the body of the for loop (scopes, exclusions, rules), the
\* end of the loop, where the guard is dropped, and the rest of the call
apply_candidates_and_finish ==
    /\ threads.pc["rewriter"] = "regex"
    /\ \E d \in {with_hostname(rulesets, threads.used.http_nowhere_on[1],
                                LockedUrl, LockedHostname)} :
       \E r \in {record_history(rewrite_history, d.url, d.action)} :
           /\ rewrite_count' = IF d.counted THEN rewrite_count + 1
                               ELSE rewrite_count
           /\ rewrite_history' = r.history
           /\ last' = [op |-> "rewrite_url", input |-> ValidInput(LockedUrl),
                       ret |-> Some(r.ret), recorded |-> TRUE,
                       count_before |-> rewrite_count]
           /\ log' = Append(log, [url |-> d.url, action |-> d.action,
                                  ret |-> r.ret])
    /\ threads' = dropped(threads, "rewriter", {"RuleSets"}, "done")
    /\ UNCHANGED <<rulesets, storage, cookie_host_safety_cache, blooms, updater,
                   tick>>

\* should_secure_cookie: let potentially_applicable = ...; the guard is
\* dropped at the end of the statement
materialise_for_cookie ==
    /\ threads.pc["cookies"] = "materialise"
    /\ threads' = dropped([threads EXCEPT !.index = rulesets],
                          "cookies", {"RuleSets"}, "regex")
    /\ UNCHANGED <<rulesets, storage, rewriter_vars, blooms, updater, tick, last>>

\* should_secure_cookie: the loops over the cookie rules and
\* safe_to_secure_cookie, on the materialised Vec
match_cookierules ==
    /\ threads.pc["cookies"] = "regex"
    /\ \E r \in {secure_after_lookup(
                      threads.index,
                      lru_get(cookie_host_safety_cache,
                              trim_start_dots(LockedCookieDomain)),
                      trim_start_dots(LockedCookieDomain), LockedCookieName)} :
           /\ cookie_host_safety_cache' = r.cache
           /\ last' = [op |-> "should_secure_cookie",
                       input |-> [valid |-> TRUE, url |-> None,
                                  domain |-> LockedCookieDomain,
                                  name |-> LockedCookieName],
                       ret |-> Some(Secure(r.ret)), recorded |-> FALSE,
                       count_before |-> rewrite_count]
    /\ threads' = [threads EXCEPT !.pc["cookies"] = "done"]
    /\ UNCHANGED <<rulesets, storage, rewrite_count, rewrite_history, log,
                   blooms, updater, tick>>

\* settings.lock().unwrap().set_https_everywhere_enabled(value) or
\* set_ease_mode_enabled(value), at most MaxSettingsWrites times
write_setting(name, value) ==
    /\ threads.pc["embedder"] = "set_storage"
    /\ storage' = set_bool(storage, Key(name), value)
    /\ threads' =
           dropped([threads EXCEPT
                       !.writes = @ + 1,
                       !.moments = moments_with(set_bool(storage, Key(name), value),
                                                rulesets)],
                   "embedder", {"Settings", "Storage"},
                   IF threads.writes + 1 < MaxSettingsWrites THEN "set" ELSE "done")
    /\ last' = [NoLast EXCEPT !.op = "set_" \o name]
    /\ UNCHANGED <<rulesets, rewriter_vars, blooms, updater, tick>>

\* perform_check: set_int("last-checked") and the read of
\* 'extension-timestamp'
write_last_checked ==
    /\ threads.pc["updater"] = "last_checked_storage"
    /\ storage' = set_int(storage, Key("last-checked"), current_timestamp(tick.count))
    /\ threads' = dropped(threads, "updater", {"Storage"}, "loops")
    /\ UNCHANGED <<rulesets, rewriter_vars, blooms, updater, tick, last>>

\* perform_check: the two loops; each of their accesses to the store
\* locks and unlocks it with no other mutex held
run_the_loops(remotes) ==
    \E checked \in {check_bloom_channels(
                        check_channels(
                            [storage |-> storage, some_updated |-> FALSE,
                             panicked |-> FALSE],
                            updater.update_channels, 1, "RuleSets", remotes,
                            unwrap_or(get_int(storage, Key("extension-timestamp")),
                                      0)),
                        remotes)} :
        /\ threads.pc["updater"] = "loops_storage"
        /\ storage' = checked.storage
        /\ tick' = [count |-> tick.count + 1, now |-> current_timestamp(tick.count),
                    remotes |-> remotes, before |-> storage,
                    some_updated |-> checked.some_updated,
                    panicked |-> FALSE, poisoned |-> FALSE]
        /\ threads' = dropped(threads, "updater", {"Storage"},
                              IF checked.some_updated THEN "closure" ELSE "done")
        /\ UNCHANGED <<rulesets, rewriter_vars, blooms, updater, last>>

\* apply_stored_rulesets: rulesets_closure, its guard dropped at the end
\* of its match
run_rulesets_closure ==
    /\ threads.pc["updater"] = "closure_storage"
    /\ threads' =
           dropped([threads EXCEPT
                       !.rulesets_tuples =
                           rulesets_tuples(storage, updater.update_channels, 1)],
                   "updater", {"Storage"}, "rulesets")
    /\ UNCHANGED <<rulesets, storage, rewriter_vars, blooms, updater, tick, last>>

\* apply_stored_rulesets: rs.clear() and the additions, under the guard rs
rebuild_index ==
    /\ threads.pc["updater"] = "rulesets_locked"
    /\ rulesets' = rebuilt_rulesets(threads.rulesets_tuples,
                                    updater.default_rulesets)
    /\ threads' =
           [threads EXCEPT
               !.pc["updater"] = "blooms",
               !.moments =
                   moments_with(storage,
                                rebuilt_rulesets(threads.rulesets_tuples,
                                                 updater.default_rulesets))]
    /\ UNCHANGED <<storage, rewriter_vars, blooms, updater, tick, last>>

\* apply_stored_rulesets: blooms.clear() and bloom_closure for the
\* channels, under the guards rs and blooms; the guard of the closure is
\* dropped when it returns
run_bloom_closure ==
    /\ threads.pc["updater"] = "bloom_closure"
    /\ blooms' = rebuilt_blooms(storage, updater.update_channels, 1)
    /\ threads' = dropped(threads, "updater", {"Storage"}, "return")
    /\ UNCHANGED <<rulesets, storage, rewriter_vars, updater, tick, last>>

\* apply_stored_rulesets returns: blooms and rs are dropped
return_from_rebuild ==
    /\ threads.pc["updater"] = "return"
    /\ threads' = dropped(threads, "updater", {"Blooms", "RuleSets"}, "done")
    /\ UNCHANGED <<rulesets, storage, rewriter_vars, blooms, updater, tick, last>>

\* the servers answer nothing, or good updates
LockedRemoteChoices ==
    {(ChannelA.name :> Remote(Non2xx, Non2xx, Non2xx, Non2xx))
         @@ (ChannelC.name :> Remote(Non2xx, Non2xx, Non2xx, Non2xx)),
     (ChannelA.name :> GoodRemote(ChannelA, 1))
         @@ (ChannelC.name :> GoodRemote(ChannelC, 1))}

\* the index holds the default rulesets; no thread holds a mutex
InitLocks ==
    /\ rulesets = add_all_from_json_string(RuleSets_new, DefaultRulesets[1],
                      ENABLE_MIXED_RULESETS, RULE_ACTIVE_STATES, None)
    /\ storage = EmptyStorage
    /\ rewrite_count = 0
    /\ rewrite_history = <<>>
    /\ cookie_host_safety_cache = <<>>
    /\ last = NoLast
    /\ log = <<>>
    /\ blooms = <<>>
    /\ updater = [update_channels |-> <<ChannelA, ChannelC>>,
                  default_rulesets |-> DefaultRulesets]
    /\ tick = NoTick
    /\ threads =
           [owner |-> [m \in LockNames |-> ""],
            pc |-> [thread \in ThreadNames |-> Places(thread)[1]],
            held |-> [thread \in ThreadNames |-> <<>>],
            used |-> [global_enabled |-> None, http_nowhere_on |-> None,
                      candidates |-> None],
            moments |-> {Moment(EmptyStorage, rulesets)},
            index |-> RuleSets_new,
            writes |-> 0,
            rulesets_tuples |-> <<>>]

Acquire == \E thread \in ThreadNames : acquire(thread)
WriteSetting ==
    \E name \in {"global_enabled", "http_nowhere_on"}, value \in BOOLEAN :
        write_setting(name, value)
RunTheLoops == \E remotes \in LockedRemoteChoices : run_the_loops(remotes)

NextLocks ==
    \/ Acquire
    \/ read_enabled
    \/ read_ease
    \/ materialise_candidates
    \/ apply_candidates_and_finish
    \/ materialise_for_cookie
    \/ match_cookierules
    \/ WriteSetting
    \/ write_last_checked
    \/ RunTheLoops
    \/ run_rulesets_closure
    \/ rebuild_index
    \/ run_bloom_closure
    \/ return_from_rebuild

SpecLocks == InitLocks /\ [][NextLocks]_vars

(***************************************************************************)
(* The vocabulary of the properties.  What a call was given and what the   *)
(* candidates make of it are stated here from the index, without the loop  *)
(* of rewrite_url.                                                         *)
(***************************************************************************)
Min(S) == CHOOSE i \in S : \A j \in S : i <= j

\* the latest operation is a rewrite_url call that reached record_history
CalledAndRecorded == last.op = "rewrite_url" /\ last.recorded
\* the URL of that call, and what was recorded for it
LastUrl == Url_parse(last.input)[1]
Recorded == log[Len(log)]
EaseOn == get_ease_mode_enabled_or(storage, FALSE)

CandidatesFor(url) ==
    IF url.host = None THEN <<>>
    ELSE potentially_applicable(rulesets, hostname_of(url.host[1]))

\* a candidate is consulted if it is active and the URL is in its scope
Consulted(ruleset, url) ==
    /\ ruleset.active
    /\ ruleset.scope = None \/ is_match(ruleset.scope[1], url)

\* the consulted candidates whose apply yields a rewrite of the URL
RewritingIn(candidates, url) ==
    {i \in DOMAIN candidates :
        Consulted(candidates[i], url) /\ apply(candidates[i], url) # None}

FirstRewriteIn(candidates, winners, url) ==
    IF winners = {} THEN None ELSE apply(candidates[Min(winners)], url)

\* the rewrite of the first consulted candidate that yields one, the
\* userinfo of the URL put back on it
FirstRewriteOf(url, rewrite) ==
    IF rewrite = None THEN None ELSE Some(restore_credentials(rewrite[1], url))

FirstRewrite(url) ==
    FirstRewriteOf(url,
        FirstRewriteIn(CandidatesFor(url),
                       RewritingIn(CandidatesFor(url), strip_credentials(url)),
                       strip_credentials(url)))

StaysPlaintext(rewrite) ==
    rewrite # None /\ rewrite[1].scheme \in {"http", "ftp"}

\* the rulesets of the index, and the URLs the model calls with
IndexedRuleSets ==
    UNION {{rulesets[t][i] : i \in DOMAIN rulesets[t]} : t \in DOMAIN rulesets}
UrlsTried == {in.url[1] : in \in {x \in UrlInputs : x.valid}}

\* one rule applied to a URL
RuleResult(rule, url) ==
    IF rule.kind = "Trivial" THEN replace_all(TRIVIAL_REGEX, url, TRIVIAL_TO)
    ELSE replace_all(rule.from[1], url, rule.to[1])

Changing(ruleset, url) ==
    {k \in DOMAIN ruleset.rules : RuleResult(ruleset.rules[k], url) # url}

FirstChange(ruleset, url) ==
    IF Changing(ruleset, url) = {} THEN None
    ELSE Some(RuleResult(ruleset.rules[Min(Changing(ruleset, url))], url))

Excluded(ruleset, url) ==
    ruleset.exclusions # None /\ exclusions_match(ruleset.exclusions[1], url)

\* the latest operation is perform_check; the channels it went through
Checked == last.op = "perform_check"
Channels == {updater.update_channels[i] : i \in DOMAIN updater.update_channels}

\* the timestamp the server of a channel announced in the latest tick, if
\* it is an integer greater than the 'uc-timestamp' entry before the tick
NewerTimestamp(uc) ==
    IF /\ tick.remotes[uc.name].latest.result = "Ok"
       /\ tick.remotes[uc.name].latest.success
       /\ tick.remotes[uc.name].latest.body[1] # None
       /\ tick.remotes[uc.name].latest.body[1][1]
              > unwrap_or(get_int(tick.before, ChannelKey("uc-timestamp", uc.name)), 0)
    THEN tick.remotes[uc.name].latest.body[1]
    ELSE None

\* the update of the channel was attempted: a newer timestamp, not older
\* than the bundled rulesets that the channel replaces
Attempted(uc) ==
    /\ NewerTimestamp(uc) # None
    /\ ~(/\ uc.format = "RuleSets"
         /\ uc.replaces_default_rulesets
         /\ unwrap_or(get_int(tick.before, Key("extension-timestamp")), 0)
                > NewerTimestamp(uc)[1])

\* the signature and the signed payload were downloaded
Downloaded(uc) ==
    /\ tick.remotes[uc.name].signature.body # None
    /\ tick.remotes[uc.name].payload.body # None
    /\ uc.format = "Bloom" => tick.remotes[uc.name].bloom.body # None

\* the downloaded signature is one by the key of the channel over the
\* downloaded payload
SignatureVerifies(uc) ==
    tick.remotes[uc.name].signature.body
        = Some(Signature(uc.key, tick.remotes[uc.name].payload.body[1]))

\* the downloaded bundle is the gzip of a JSON text with this timestamp
BundleTimestampIs(uc, ts) ==
    \E bundle \in {RulesetsBundle(Some(ts), Some(BundleRulesets(t))) :
                       t \in 1..(MaxTimestamp + 1)}
                      \cup {RulesetsBundle(Some(ts), None)} :
        tick.remotes[uc.name].payload.body = Some(Gzip(JsonText(bundle)))

\* the downloaded metadata is complete, carries this timestamp and the
\* digest of the downloaded filter
MetadataGoodFor(uc, ts) ==
    /\ tick.remotes[uc.name].payload.body = Some(GoodMetadata(ts))
    /\ tick.remotes[uc.name].bloom.body = Some(BloomBin(ts))

\* the attempted update of the channel failed at some step after the probe
FailedAfterProbe(uc) ==
    /\ Attempted(uc)
    /\ ~(/\ Downloaded(uc)
         /\ SignatureVerifies(uc)
         /\ IF uc.format = "RuleSets"
            THEN BundleTimestampIs(uc, NewerTimestamp(uc)[1])
            ELSE MetadataGoodFor(uc, NewerTimestamp(uc)[1]))

BloomIntNames ==
    {"bloom_bitmap_bits", "bloom_k_num", "bloom_sip_keys_0_0",
     "bloom_sip_keys_0_1", "bloom_sip_keys_1_0", "bloom_sip_keys_1_1"}

\* the entry is the same in the store as before the latest tick
SameInt(name, uc) ==
    get_int(storage, ChannelKey(name, uc.name))
        = get_int(tick.before, ChannelKey(name, uc.name))
SameRulesets(uc) ==
    get_string(storage, ChannelKey("rulesets", uc.name))
        = get_string(tick.before, ChannelKey("rulesets", uc.name))
SameBloom(uc) ==
    /\ get_bytes(storage, ChannelKey("bloom", uc.name))
           = get_bytes(tick.before, ChannelKey("bloom", uc.name))
    /\ \A name \in BloomIntNames : SameInt(name, uc)

\* the timestamp the server of a channel announced in the latest tick, if
\* the answer was an integer
ProbedTimestamp(uc) ==
    IF /\ tick.remotes[uc.name].latest.result = "Ok"
       /\ tick.remotes[uc.name].latest.success
    THEN tick.remotes[uc.name].latest.body[1]
    ELSE None

\* an entry of the channel before the latest tick, 0 when absent
IntBefore(name, uc) ==
    unwrap_or(get_int(tick.before, ChannelKey(name, uc.name)), 0)

\* no entry of the channel differs from before the latest tick; the entry
\* 'uc-timestamp' is written by get_new_rulesets and get_new_bloom before
\* their first request, so that it tells whether anything was requested
ChannelUntouched(uc) ==
    /\ SameInt("uc-timestamp", uc)
    /\ SameInt("uc-stored-timestamp", uc)
    /\ SameRulesets(uc)
    /\ SameBloom(uc)

\* the bundled rulesets are newer than what the server of a channel that
\* replaces them announced
BundledIsNewer(uc) ==
    /\ uc.format = "RuleSets"
    /\ uc.replaces_default_rulesets
    /\ ProbedTimestamp(uc) # None
    /\ unwrap_or(get_int(tick.before, Key("extension-timestamp")), 0)
           > ProbedTimestamp(uc)[1]

\* the latest tick rebuilt the index and the blooms
Rebuilt == Checked /\ tick.some_updated /\ ~tick.panicked

\* the bundle stored for a channel, when it is a JSON text
StoredBundle(uc) ==
    IF get_string(storage, ChannelKey("rulesets", uc.name)) = None THEN None
    ELSE get_string(storage, ChannelKey("rulesets", uc.name))[1].json

\* the channels of the ruleset format whose stored bundle can be read, in
\* the order of the channels
ReadChannels ==
    SelectSeq(updater.update_channels,
              LAMBDA uc : uc.format = "RuleSets" /\ StoredBundle(uc) # None)

\* the JSON objects a sequence of channels stores, each with the scope of
\* its channel
RECURSIVE BundleObjects(_, _)
BundleObjects(channels, i) ==
    IF i > Len(channels) THEN <<>>
    ELSE [k \in DOMAIN StoredBundle(channels[i])[1].rulesets[1] |->
             [json |-> StoredBundle(channels[i])[1].rulesets[1][k],
              scope |-> channels[i].scope]]
         \o BundleObjects(channels, i + 1)

DefaultsDue ==
    /\ updater.default_rulesets # None
    /\ \A i \in DOMAIN ReadChannels : ~ReadChannels[i].replaces_default_rulesets

DefaultObjects ==
    [k \in DOMAIN updater.default_rulesets[1].json[1] |->
        [json |-> updater.default_rulesets[1].json[1][k], scope |-> None]]

\* what a rebuild is to ingest, in order
DueObjects ==
    BundleObjects(ReadChannels, 1) \o (IF DefaultsDue THEN DefaultObjects ELSE <<>>)

HasTarget(object, host) ==
    /\ object.json.name # None
    /\ object.json.target # None
    /\ \E i \in DOMAIN object.json.target[1] : object.json.target[1][i] = host

\* name and scope of each element of a sequence of rulesets, or of objects
NamesAndScopes(seq) ==
    [i \in DOMAIN seq |-> <<seq[i].name, seq[i].scope>>]
ObjectNamesAndScopes(seq) ==
    [i \in DOMAIN seq |-> <<seq[i].json.name[1], seq[i].scope>>]

\* the update of the channel was verified and persisted in the latest tick
Completed(uc) == Attempted(uc) /\ ~FailedAfterProbe(uc)

\* the step is a tick
TickStep == last'.op = "perform_check" /\ tick'.count = tick.count + 1

\* the step is a call of should_secure_cookie
CookieStep == last'.op = "should_secure_cookie" /\ last' # last

\* the timestamp in the bundle, and of the filter, stored for a channel; 0
\* when there is none
BundleTimestampIn(st, uc) ==
    IF get_string(st, ChannelKey("rulesets", uc.name)) = None THEN 0
    ELSE get_string(st, ChannelKey("rulesets", uc.name))[1].json[1].timestamp[1]
BloomTimestampIn(st, uc) ==
    IF get_bytes(st, ChannelKey("bloom", uc.name)) = None THEN 0
    ELSE get_bytes(st, ChannelKey("bloom", uc.name))[1].bloom_bin

\* the store holds a payload of the channel with this timestamp
PayloadStoredAt(uc, ts) ==
    IF uc.format = "RuleSets" THEN BundleTimestampIn(storage, uc) = ts
    ELSE BloomTimestampIn(storage, uc) = ts

\* the latest tick wrote payload data of the channel
PayloadWritten(uc) == ~SameRulesets(uc) \/ ~SameBloom(uc)

\* the update of the channel failed in the latest tick: at the probe, or
\* at a step after it
ProbeFailed(uc) == ProbedTimestamp(uc) = None
Failed(uc) == ProbeFailed(uc) \/ FailedAfterProbe(uc)

\* the latest tick persisted the update of the channel
Persisted(uc) ==
    /\ get_int(storage, ChannelKey("uc-timestamp", uc.name)) = NewerTimestamp(uc)
    /\ get_int(storage, ChannelKey("uc-stored-timestamp", uc.name))
           = NewerTimestamp(uc)
    /\ PayloadStoredAt(uc, NewerTimestamp(uc)[1])

\* the latest step locked a mutex
Locked == last.op = "lock"

\* the order in which the mutexes are nested
Rank(m) ==
    CASE m = "Settings" -> 1
      [] m = "RuleSets" -> 2
      [] m = "Blooms" -> 3
      [] m = "Storage" -> 4

\* the thread waits for a mutex that a thread holds
Blocked(thread) ==
    /\ WantedLock(thread, threads.pc[thread]) # ""
    /\ threads.owner[WantedLock(thread, threads.pc[thread])] # ""

\* the step is a call of clear_replacement_update_channels
ClearStep == last'.op = "clear_replacement_update_channels" /\ last.op = "perform_check"

\* the step is a tick that follows a call of
\* clear_replacement_update_channels
TickAfterClear ==
    /\ last.op = "clear_replacement_update_channels"
    /\ TickStep
    /\ ~tick.poisoned

\* the step is a call of add_all_from_serde_value; what it was given
IngestStep == last'.op = "add_all_from_serde_value"
GivenJson == last'.input.json

\* the object has a name and lists the target
Lists(object, host) ==
    /\ object.name # None
    /\ object.target # None
    /\ \E i \in DOMAIN object.target[1] : object.target[1][i] = host

\* how many entries the index held under a target before the step, and
\* the entries the step added under it
HeldBefore(host) == IF host \in DOMAIN rulesets THEN Len(rulesets[host]) ELSE 0
AddedUnder(host) ==
    SubSeq(rulesets'[host], HeldBefore(host) + 1, Len(rulesets'[host]))

\* default_state and active as the objects of the call prescribe them
DefaultStateOf(object) ==
    ~(\/ object.default_off # None /\ object.default_off[1] # "user rule"
      \/ object.platform # None /\ object.platform[1] # "mixedcontent"
      \/ /\ object.platform = Some("mixedcontent")
         /\ ~last'.input.enable_mixed_rulesets)
ActiveOf(object) ==
    IF object.name[1] \in DOMAIN last'.input.ruleset_active_states
    THEN last'.input.ruleset_active_states[object.name[1]]
    ELSE DefaultStateOf(object)

\* the targets the named objects of the call list
ListedTargets ==
    UNION {{GivenJson[j].target[1][i] : i \in DOMAIN GivenJson[j].target[1]} :
              j \in {k \in DOMAIN GivenJson :
                        GivenJson[k].name # None /\ GivenJson[k].target # None}}

\* the entry that the step added under a target for the j-th object
EntryFor(j, host) ==
    rulesets'[host][HeldBefore(host)
                      + Cardinality({k \in 1..j : Lists(GivenJson[k], host)})]

(***************************************************************************)
(* The claims.                                                             *)
(***************************************************************************)

\* C1: under http_nowhere_on, a call whose candidates produce a rewrite that
\* still begins with http: or ftp: returns CancelRequest, and the rewrite
\* counter is the same after the call as before it.
C1_EaseCancelsPlaintextRewrite ==
    (CalledAndRecorded /\ EaseOn /\ StaysPlaintext(FirstRewrite(LastUrl)))
        => /\ last.ret = Some(CancelRequest)
           /\ get_rewrite_count = last.count_before

\* C2: under http_nowhere_on, a call for which no ruleset produces a rewrite
\* returns CancelRequest if the scheme is http or ftp and the hostname,
\* trailing dots stripped, is not exempt; otherwise it returns NoOp.  Every
\* call of every sequence of calls.
C2_EaseWithoutRewrite ==
    (CalledAndRecorded /\ EaseOn /\ FirstRewrite(LastUrl) = None)
        => last.ret =
               Some(IF /\ LastUrl.scheme \in {"http", "ftp"}
                       /\ LastUrl.host # None
                       /\ ~ease_exempt(trim_end_dots(LastUrl.host[1]))
                    THEN CancelRequest ELSE NoOp)

\* C3: when the signature downloaded for a channel of the ruleset format
\* does not verify over the downloaded gzip bytes, or the timestamp of the
\* bundle is not the timestamp the fetch was made for, 'rulesets: <ch>' and
\* 'uc-stored-timestamp: <ch>' are after perform_check what they were
\* before it.
C3_RejectedBundleNotStored ==
    Checked =>
        \A uc \in Channels :
            (/\ uc.format = "RuleSets"
             /\ Attempted(uc)
             /\ Downloaded(uc)
             /\ \/ ~SignatureVerifies(uc)
                \/ ~BundleTimestampIs(uc, NewerTimestamp(uc)[1]))
                => /\ SameRulesets(uc)
                   /\ SameInt("uc-stored-timestamp", uc)

\* a forged bundle was offered after a bundle had been stored, and a
\* bundle with another timestamp likewise
C3_Witness ==
    /\ Checked
    /\ \E uc \in Channels :
           /\ uc.format = "RuleSets"
           /\ Attempted(uc)
           /\ Downloaded(uc)
           /\ ~SignatureVerifies(uc)
           /\ tick.remotes[uc.name].payload.body
                  = Some(GoodBundle(NewerTimestamp(uc)[1]))
           /\ get_string(tick.before, ChannelKey("rulesets", uc.name)) # None
           /\ get_string(storage, ChannelKey("rulesets", uc.name))
                  = Some(JsonText(RulesetsBundle(Some(1), Some(BundleRulesets(1)))))
           /\ get_int(storage, ChannelKey("uc-stored-timestamp", uc.name)) = Some(1)

\* C4: when the signature downloaded for a channel of the Bloom format does
\* not verify over the downloaded metadata, no bloom entry of the channel
\* is written, 'uc-stored-timestamp: <ch>' is not advanced, and a tick in
\* which this is the only channel counts no update.
C4_ForgedBloomRejected ==
    Checked =>
        \A uc \in Channels :
            (/\ uc.format = "Bloom"
             /\ Attempted(uc)
             /\ Downloaded(uc)
             /\ ~SignatureVerifies(uc))
                => /\ SameBloom(uc)
                   /\ SameInt("uc-stored-timestamp", uc)
                   /\ Channels = {uc} => ~tick.some_updated

\* C5: when the attempted update of a channel fails at a step after the
\* timestamp probe, every entry of the channel is after perform_check what
\* it was before it.
C5_FailedUpdateLeavesEntries ==
    Checked =>
        \A uc \in Channels :
            FailedAfterProbe(uc)
                => /\ SameInt("uc-timestamp", uc)
                   /\ SameInt("uc-stored-timestamp", uc)
                   /\ SameRulesets(uc)
                   /\ SameBloom(uc)

\* C6: the rewrite of a call is the one of the first candidate, in the order
\* of potentially_applicable, that is active, has the URL in its scope and
\* whose apply yields a rewrite; when there is no such candidate the call
\* rewrites nothing.
C6_FirstConsultedCandidateWins ==
    CalledAndRecorded =>
        IF FirstRewrite(LastUrl) = None
        THEN Recorded.action \in {NoOp, CancelRequest}
        ELSE \/ Recorded.action = RewriteUrl(FirstRewrite(LastUrl)[1])
             \/ /\ Recorded.action = CancelRequest
                /\ EaseOn
                /\ StaysPlaintext(FirstRewrite(LastUrl))

\* two consulted candidates yield different rewrites and the first one's is
\* returned
C6_Witness ==
    /\ CalledAndRecorded
    /\ LastUrl = Chart123Url
    /\ \E i, j \in RewritingIn(CandidatesFor(LastUrl), LastUrl) :
           /\ i < j
           /\ apply(CandidatesFor(LastUrl)[i], LastUrl)
                  # apply(CandidatesFor(LastUrl)[j], LastUrl)
    /\ last.ret = Some(RewriteUrl(FirstRewrite(LastUrl)[1]))

\* C7: for every ruleset that a call finds for its URL and whose exclusions
\* do not cover the URL, apply returns the result of the first rule, in
\* declaration order, that changes the URL, and no rewrite if no rule
\* changes it; a rewrite that apply returns differs from the URL.
C7_ApplyFirstChangingRule ==
    CalledAndRecorded =>
        \A i \in DOMAIN CandidatesFor(LastUrl) :
            /\ ~Excluded(CandidatesFor(LastUrl)[i], strip_credentials(LastUrl))
                   => apply(CandidatesFor(LastUrl)[i], strip_credentials(LastUrl))
                          = FirstChange(CandidatesFor(LastUrl)[i],
                                        strip_credentials(LastUrl))
            /\ apply(CandidatesFor(LastUrl)[i], strip_credentials(LastUrl))
                   # Some(strip_credentials(LastUrl))

\* C8: apply returns no rewrite for a URL that the exclusions of the ruleset
\* match; a call all of whose candidates exclude the URL is not rewritten;
\* over the mock rulesets http://chart.googleapis.com/ is a NoOp and
\* http://chart.googleapis.com/123 is rewritten to https.
C8_ExcludedNotRewritten ==
    /\ \A ruleset \in IndexedRuleSets, url \in UrlsTried :
           Excluded(ruleset, url) => apply(ruleset, url) = None
    /\ (/\ CalledAndRecorded
        /\ \A i \in DOMAIN CandidatesFor(LastUrl) :
               Excluded(CandidatesFor(LastUrl)[i], strip_credentials(LastUrl)))
           => Recorded.action.kind # "RewriteUrl"
    /\ (CalledAndRecorded /\ rulesets = MockIndex /\ ~EaseOn)
           => /\ LastUrl = ChartRootUrl => last.ret = Some(NoOp)
              /\ LastUrl = Chart123Url
                     => last.ret = Some(RewriteUrl(PlainUrl("https", ChartHost, "/123")))

\* the excluded root of the chart host was asked for and left alone
C8_Witness ==
    /\ CalledAndRecorded
    /\ rulesets = MockIndex
    /\ ~EaseOn
    /\ LastUrl = ChartRootUrl
    /\ Excluded(CandidatesFor(LastUrl)[1], LastUrl)
    /\ CandidatesFor(LastUrl)[1].rules # <<>>
    /\ last.ret = Some(NoOp)

\* the recorded calls among the last 15 that have the URL and the action of
\* the current one
SameInWindow ==
    {k \in DOMAIN log :
        /\ k > Len(log) - 15
        /\ log[k].url = Recorded.url
        /\ log[k].action = Recorded.action}

\* C9: a call returns RedirectLoopWarning if at least 8 of the last 15
\* recorded calls, itself included, were for its URL with its action, and
\* returns its own action if fewer were; of eight successive calls for a URL
\* that is rewritten the first seven return RewriteUrl and the eighth the
\* warning.
C9_RedirectLoopWarning ==
    CalledAndRecorded =>
        /\ Cardinality(SameInWindow) >= 8 => last.ret = Some(RedirectLoopWarning)
        /\ Cardinality(SameInWindow) < 8
               => last.ret = Some(Recorded.action) /\ last.ret # Some(RedirectLoopWarning)
        /\ (/\ Len(log) <= 8
            /\ \A k \in DOMAIN log :
                   log[k].url = KittenUrl /\ log[k].action.kind = "RewriteUrl")
               => last.ret = IF Len(log) = 8 THEN Some(RedirectLoopWarning)
                             ELSE Some(RewriteUrl(PlainUrl("https", KittenHost, "/")))

\* a warning with exactly 8 occurrences in a full window, an earlier
\* occurrence having left the window
C9_Witness ==
    /\ CalledAndRecorded
    /\ Len(log) = 16
    /\ log[1].url = Recorded.url /\ log[1].action = Recorded.action
    /\ Cardinality(SameInWindow) = 8
    /\ last.ret = Some(RedirectLoopWarning)

\* C10: the rewrite count is 0 for a new Rewriter, never decreases, and
\* equals the number of recorded calls whose candidates produced a rewrite
\* that was not cancelled, whether or not the call returned the loop
\* warning; a call that ends in NoOp, CancelRequest or a parse error leaves
\* it as it was.
C10_RewriteCount ==
    /\ last.op = "new" => get_rewrite_count = 0
    /\ get_rewrite_count >= last.count_before
    /\ get_rewrite_count
           = Cardinality({k \in DOMAIN log : log[k].action.kind = "RewriteUrl"})
    /\ CalledAndRecorded =>
           /\ Recorded.action.kind = "RewriteUrl"
                  <=> /\ FirstRewrite(LastUrl) # None
                      /\ ~(EaseOn /\ StaysPlaintext(FirstRewrite(LastUrl)))
           /\ get_rewrite_count =
                  IF Recorded.action.kind = "RewriteUrl"
                  THEN last.count_before + 1 ELSE last.count_before
    /\ (last.op = "rewrite_url" /\ ~last.recorded)
           => get_rewrite_count = last.count_before

\* a rewrite that was returned as the loop warning and counted
C10_Witness ==
    /\ CalledAndRecorded
    /\ Recorded.action.kind = "RewriteUrl"
    /\ last.ret = Some(RedirectLoopWarning)
    /\ get_rewrite_count = last.count_before + 1
    /\ \E k \in DOMAIN log : log[k].action = CancelRequest

\* the URL as text without its userinfo, and whether it has any
HasUserinfo(url) == url.username # "" \/ url.password # None
WithoutUserinfo(url) == Url(url.scheme, "", None, url.host, url.path)

\* the first rewrite that the consulted candidates give for a URL text
RewriteOfText(url) ==
    FirstRewriteIn(CandidatesFor(url), RewritingIn(CandidatesFor(url), url), url)

\* C11: for a call whose URL has a username or a password, the candidates
\* (their scopes, exclusions and rules) are evaluated on the URL without the
\* userinfo: the call rewrites exactly when that URL is rewritten (and the
\* rewrite is not cancelled), and the URL it returns is that rewrite with
\* exactly the username and the password of the input.
C11_UserinfoSetAsideAndRestored ==
    (CalledAndRecorded /\ HasUserinfo(LastUrl)) =>
        /\ Recorded.action.kind = "RewriteUrl"
               <=> /\ RewriteOfText(WithoutUserinfo(LastUrl)) # None
                   /\ ~(EaseOn /\ StaysPlaintext(RewriteOfText(WithoutUserinfo(LastUrl))))
        /\ \A new \in {u \in {Recorded.action.url} : Recorded.action.kind = "RewriteUrl"} :
               /\ new[1].username = LastUrl.username
               /\ new[1].password = LastUrl.password
               /\ Some(WithoutUserinfo(new[1]))
                      = RewriteOfText(WithoutUserinfo(LastUrl))

\* a URL with a username only is rewritten by a rule anchored at the host,
\* and one with username and password by the trivial rule
C11_Witness ==
    /\ CalledAndRecorded
    /\ LastUrl = KittenUserUrl
    /\ last.ret = Some(RewriteUrl(Url("https", "eff", None, Some(KittenHost), "/")))
    /\ ~is_match(HostRegex("http", KittenHost), LastUrl)

\* the stored value of global_enabled
GlobalEnabled == get_bool(storage, Key("global_enabled"))

\* a step is a call of rewrite_url
CallStep == last'.op = "rewrite_url" /\ <<last, log>>' # <<last, log>>

\* C12: a call made while global_enabled is stored as false returns NoOp
\* whatever its input (a string that does not parse included) and leaves
\* the index, the counter and the history as they were; a call made while
\* global_enabled is not stored goes on as one made while it is true: it
\* returns the parse error or records the action that the rulesets and the
\* EASE setting give.
C12_DisabledIsNoOp ==
    [][CallStep =>
         /\ GlobalEnabled = Some(FALSE)
                => /\ last'.ret = Some(NoOp)
                   /\ ~last'.recorded
                   /\ UNCHANGED <<rulesets, rewrite_count, rewrite_history, log>>
         /\ GlobalEnabled = None
                => IF last'.input.valid
                   THEN /\ last'.recorded
                        /\ log' = Append(log, log'[Len(log')])
                        /\ [url |-> log'[Len(log')].url,
                            action |-> log'[Len(log')].action,
                            counted |-> rewrite_count' = rewrite_count + 1]
                               = decide(rulesets,
                                        set_bool(storage, Key("global_enabled"), TRUE),
                                        last'.input.url[1])
                   ELSE last'.ret = None]_vars

\* after a rewrite was recorded the extension was switched off, and the URL
\* that was rewritten before now gets NoOp
C12_Witness ==
    /\ last.op = "rewrite_url"
    /\ GlobalEnabled = Some(FALSE)
    /\ last.input = ValidInput(KittenUrl)
    /\ last.ret = Some(NoOp)
    /\ rewrite_count = 1
    /\ rewrite_history = <<[url |-> KittenUrl,
                            action |-> RewriteUrl(PlainUrl("https", KittenHost, "/"))]>>

\* the latest operation is a should_secure_cookie call; its domain without
\* leading dots, and its cookie name
CookieAsked == last.op = "should_secure_cookie"
AskedDomain == trim_start_dots(last.input.domain)
AskedName == last.input.name

\* some active candidate of the domain has a CookieRule for the cookie
Eligible(domain, name) ==
    \E i \in DOMAIN potentially_applicable(rulesets, domain) :
        \E ruleset \in {potentially_applicable(rulesets, domain)[i]} :
            /\ ruleset.active
            /\ ruleset.cookierules # None
            /\ \E k \in DOMAIN ruleset.cookierules[1] :
                   /\ text_is_match(ruleset.cookierules[1][k].host_regex, domain)
                   /\ text_is_match(ruleset.cookierules[1][k].name_regex, name)

\* some active candidate of the domain rewrites the synthetic URL
DomainSafe(domain) ==
    \E i \in DOMAIN potentially_applicable(rulesets, domain) :
        /\ potentially_applicable(rulesets, domain)[i].active
        /\ apply(potentially_applicable(rulesets, domain)[i],
                 PlainUrl("http", domain, "/is_it_safe/to_secure_this_cookie")) # None

\* C17: should_secure_cookie returns true exactly when some active candidate
\* ruleset of the domain (leading dots stripped) has a CookieRule matching
\* the domain and the cookie name, and some active candidate ruleset rewrites
\* http://<domain>/is_it_safe/to_secure_this_cookie.
C17_SecureIffRuleAndSafe ==
    CookieAsked =>
        (last.ret = Some(Secure(TRUE))
            <=> Eligible(AskedDomain, AskedName) /\ DomainSafe(AskedDomain))

\* C13 as stated: a call whose input does not parse returns an error, not
\* NoOp, and leaves the counter, the history and the cookie-safety cache
\* unchanged.
C13_ParseErrorSurfaced ==
    [][(CallStep /\ ~last'.input.valid) =>
         /\ last'.ret = None
         /\ UNCHANGED <<rewrite_count, rewrite_history, cookie_host_safety_cache>>]_vars

\* C13: unless global_enabled is stored as false, a call whose input does
\* not parse returns an error, not NoOp, and leaves the counter, the
\* history and the cookie-safety cache unchanged; when global_enabled is
\* false the call returns NoOp before the input is parsed.
C13_ParseErrorSurfacedWhenEnabled ==
    [][(CallStep /\ ~last'.input.valid) =>
         /\ last'.ret = IF GlobalEnabled = Some(FALSE) THEN Some(NoOp) ELSE None
         /\ UNCHANGED <<rewrite_count, rewrite_history, cookie_host_safety_cache>>]_vars

\* a string that does not parse was handed to a rewriter that holds a
\* history entry and a cache entry, and the error came back
C13_Witness ==
    /\ last.op = "rewrite_url"
    /\ ~last.input.valid
    /\ last.ret = None
    /\ rewrite_count = 1
    /\ rewrite_history # <<>>
    /\ cookie_host_safety_cache # <<>>

\* the latest operation is a lookup; its host and what it returned
LookedUp == last.op = "potentially_applicable"
LookedUpHost == last.input.host
Found == last.ret[1]

\* non-empty, at most 255 bytes, and no ".." (no empty label between two
\* dots)
WellFormed(host) ==
    /\ host # <<"">>
    /\ HostLen(host) <= 255
    /\ \A i \in 2..(Len(host) - 1) : host[i] # ""

\* the rulesets stored under a key, in the order of the index
Stored(key) == IF key \in DOMAIN rulesets THEN rulesets[key] ELSE <<>>

\* the host with its last label replaced by "*"
RightWildcard(host) == SubSeq(host, 1, Len(host) - 1) \o <<"*">>

\* "*" followed by the labels after position i (positions from 0)
LeftWildcard(host, i) == <<"*">> \o SubSeq(host, i + 2, Len(host))

\* the rulesets under the left-wildcard keys from position i on
RECURSIVE StoredLeft(_, _)
StoredLeft(host, i) ==
    IF i > Len(host) - 2 THEN <<>>
    ELSE Stored(LeftWildcard(host, i)) \o StoredLeft(host, i + 1)

\* C14: a lookup of a well-formed host returns the rulesets under the exact
\* key, then those under the right-wildcard key, then those under the
\* left-wildcard keys for positions 0 .. len-2 in increasing order, and
\* nothing else; the rulesets under one key are in the order in which they
\* were added, because adding a ruleset appends to the keys of its targets
\* and a lookup leaves the index alone.
C14_LookupOrder ==
    [][/\ (LookedUp' /\ WellFormed(LookedUpHost'))
           => Found' = Stored(LookedUpHost)' \o Stored(RightWildcard(LookedUpHost))'
                           \o StoredLeft(LookedUpHost, 0)'
       /\ LookedUp' => rulesets' = rulesets
       /\ \A key \in DOMAIN rulesets :
              /\ key \in DOMAIN rulesets'
              /\ SubSeq(rulesets'[key], 1, Len(rulesets[key])) = rulesets[key]]_vars

\* a host of four labels found rulesets under its exact key and under a
\* left-wildcard key, the exact ones first although they were added last
C14_Witness ==
    /\ LookedUp
    /\ LookedUpHost = FooChartHost
    /\ Len(Found) = 2
    /\ Found[1].name = "b"
    /\ Found[2].name = "a"
    /\ Stored(FooChartHost) = <<Found[1]>>
    /\ Stored(GoogleApisTarget) = <<Found[2]>>

\* the keys of the index that are a left-wildcard key of the host: "*"
\* followed by the labels after some position 0 .. len-2, the labels before
\* it dropped
LeftKeysIn(host) ==
    {key \in DOMAIN rulesets :
        \E i \in 0..(Len(host) - 2) :
            /\ Len(key) = Len(host) - i
            /\ key[1] = "*"
            /\ \A k \in 2..Len(key) : key[k] = host[i + k]}

\* C15: the left-wildcard key for position i of a host is "*" followed by
\* the labels after position i.  Hence, when the index holds rulesets under
\* keys that start with "*" only, a lookup of a well-formed host returns
\* exactly the rulesets under those of the keys that are one of its
\* left-wildcard keys, each once; a ruleset indexed only under *.googleapis.com is
\* returned exactly once for chart.googleapis.com and for
\* foo.chart.googleapis.com, one indexed only under *.chart.googleapis.com
\* once for foo.chart.googleapis.com and not for chart.googleapis.com.
C15_LeftWildcardKeys ==
    (/\ LookedUp
     /\ WellFormed(LookedUpHost)
     /\ \A key \in DOMAIN rulesets : key[1] = "*") =>
        /\ \A k \in DOMAIN Found : \E key \in LeftKeysIn(LookedUpHost) :
               \E j \in DOMAIN rulesets[key] : rulesets[key][j] = Found[k]
        /\ Len(Found) = SumLen(rulesets, LeftKeysIn(LookedUpHost))
        /\ DOMAIN rulesets = {GoogleApisTarget}
               => (LookedUpHost \in {ChartHost, FooChartHost}
                       <=> Found = rulesets[GoogleApisTarget])
        /\ DOMAIN rulesets = {<<"*">> \o ChartHost}
               => (LookedUpHost = FooChartHost
                       <=> Found = rulesets[<<"*">> \o ChartHost])

\* a ruleset indexed only under *.googleapis.com was returned once for
\* foo.chart.googleapis.com, whose key for position 1 it is
C15_Witness ==
    /\ LookedUp
    /\ LookedUpHost = FooChartHost
    /\ DOMAIN rulesets = {GoogleApisTarget}
    /\ Len(rulesets[GoogleApisTarget]) = 1
    /\ Found = rulesets[GoogleApisTarget]

\* C16: a lookup of a host that is empty, longer than 255 bytes or holds
\* ".." returns exactly the rulesets stored under the host itself, whatever
\* the wildcard keys of the index are; a lookup returns for every host.
C16_IllFormedHostExactOnly ==
    LookedUp =>
        /\ ~WellFormed(LookedUpHost) => Found = Stored(LookedUpHost)
        /\ last.ret # None

\* a host with ".." was looked up in an index that holds one ruleset under
\* the host itself and one under *.com, and only the former was returned
C16_Witness ==
    /\ LookedUp
    /\ LookedUpHost = DotDotHost
    /\ DotDotHost \in DOMAIN rulesets
    /\ <<"*", "com">> \in DOMAIN rulesets
    /\ Found = rulesets[DotDotHost]

\* C18: the cookie-safety cache never holds more than 250 entries and the
\* history never more than 15; the history is the latest recorded (url,
\* action) pairs, the newest first.
C18_CacheAndHistoryCapped ==
    /\ Len(cookie_host_safety_cache) <= 250
    /\ Len(rewrite_history) <= 15
    /\ Len(rewrite_history) = (IF Len(log) < 15 THEN Len(log) ELSE 15)
    /\ \A i \in DOMAIN rewrite_history :
           rewrite_history[i] = [url |-> log[Len(log) + 1 - i].url,
                                 action |-> log[Len(log) + 1 - i].action]

\* more than 250 domains were asked about and more than 15 calls were
\* recorded, the first of another URL: the cache is full without the first
\* domain, the history is full without the first call
C18_Witness ==
    /\ Len(cookie_host_safety_cache) = 250
    /\ \A i \in DOMAIN cookie_host_safety_cache :
           cookie_host_safety_cache[i].key # NumberedDomain(1)
    /\ Len(log) > 15
    /\ log[1].url # KittenUrl
    /\ Len(rewrite_history) = 15
    /\ \A i \in DOMAIN rewrite_history : rewrite_history[i].url = KittenUrl

\* C19: a channel whose probe fails, or announces a timestamp that is not
\* greater than the one stored for the channel ('uc-timestamp', and so also
\* when not greater than 'uc-stored-timestamp'), is skipped by
\* perform_check: nothing is requested and no entry of the channel changes.
C19_NotNewerIsSkipped ==
    Checked =>
        \A uc \in Channels :
            (\/ ProbedTimestamp(uc) = None
             \/ ProbedTimestamp(uc)[1] <= IntBefore("uc-timestamp", uc)
             \/ ProbedTimestamp(uc)[1] <= IntBefore("uc-stored-timestamp", uc))
                => ChannelUntouched(uc)

\* the server announces the timestamp of an update that failed in the tick
\* before, now with a good signature and payload
C19_Witness ==
    /\ Checked
    /\ \E uc \in Channels :
           /\ ProbedTimestamp(uc) # None
           /\ ProbedTimestamp(uc)[1] = IntBefore("uc-timestamp", uc)
           /\ ProbedTimestamp(uc)[1] > IntBefore("uc-stored-timestamp", uc)
           /\ tick.remotes[uc.name] = GoodRemote(uc, ProbedTimestamp(uc)[1])

\* C20: when 'extension-timestamp' exceeds the timestamp probed for a
\* channel of the ruleset format that replaces the default rulesets,
\* perform_check downloads nothing for the channel, changes none of its
\* entries ('uc-timestamp' included) and does not count it as updated.
C20_OlderThanBundledIsSkipped ==
    Checked =>
        \A uc \in Channels :
            BundledIsNewer(uc)
                => /\ ChannelUntouched(uc)
                   /\ (\A other \in Channels \ {uc} : ~Attempted(other))
                          => ~tick.some_updated

\* the server announces a well-signed bundle that is newer than what the
\* channel has and older than the bundled rulesets
C20_Witness ==
    /\ Checked
    /\ \E uc \in Channels :
           /\ BundledIsNewer(uc)
           /\ NewerTimestamp(uc) # None
           /\ tick.remotes[uc.name] = GoodRemote(uc, ProbedTimestamp(uc)[1])

\* C21: after a rebuild the index holds, under each target, the rulesets
\* of the readable stored bundles of the channels of the ruleset format, in
\* the order of the channels and each with the scope of its channel, then
\* the default rulesets if and only if no such channel replaces them; it
\* holds nothing else.
C21_RebuildIsExact ==
    Rebuilt =>
        /\ \A host \in DOMAIN rulesets :
               \E i \in DOMAIN DueObjects : HasTarget(DueObjects[i], host)
        /\ \A i \in DOMAIN DueObjects :
               \A host \in {DueObjects[i].json.target[1][k] :
                                k \in DOMAIN DueObjects[i].json.target[1]} :
                   /\ host \in DOMAIN rulesets
                   /\ NamesAndScopes(rulesets[host])
                          = ObjectNamesAndScopes(
                                SelectSeq(DueObjects,
                                          LAMBDA object : HasTarget(object, host)))

\* a channel that replaces the default rulesets was updated in the latest
\* tick, next to a channel with a scope that has a bundle too; the index
\* held the default rulesets before and holds none of them now
C21_Witness ==
    /\ Rebuilt
    /\ Len(ReadChannels) = 2
    /\ \E uc \in Channels :
           /\ uc.replaces_default_rulesets
           /\ ~SameRulesets(uc)
    /\ KittenHost \notin DOMAIN rulesets

\* C24: perform_check returns normally whatever the servers answer: no
\* tick ends in a panic.
C24_PerformCheckNeverPanics == Checked => ~tick.panicked

\* C22: a tick in which no channel is verified and persisted leaves the
\* index and the blooms as they were and runs no rebuild.
C22_NoUpdateNoRebuild ==
    [][(TickStep /\ \A uc \in Channels : ~Completed(uc)')
           => /\ rulesets' = rulesets
              /\ blooms' = blooms
              /\ ~tick'.some_updated]_vars

\* C23: a call of rewrite_url or should_secure_cookie made while
\* perform_check is under way reads the index as the construction or the
\* latest completed rebuild left it: never the cleared index, never one
\* with only some of the channels or without the default rulesets.
C23_CallsSeeAnInstalledIndex ==
    [][(CallStep \/ CookieStep) => rulesets = threads.installed]_vars

\* during the second tick, before its rebuild takes the lock, a call
\* returns the rewrite of a ruleset that the rebuild of the first tick
\* installed
C23_Witness ==
    /\ tick.count = 2
    /\ threads.pc = "lock"
    /\ last.op = "rewrite_url"
    /\ last.input = ValidInput(Chart123Url)
    /\ last.ret = Some(RewriteUrl(PlainUrl("https", WwwFakeHost, "/123")))

\* C25: over the ticks 'uc-stored-timestamp' of a channel never decreases,
\* a stored bundle or filter is replaced only by one with a greater
\* timestamp, and 'uc-stored-timestamp' is at most 'uc-timestamp' once both
\* are set.
C25_TimestampsMonotone ==
    [][TickStep =>
          \A uc \in Channels :
              /\ unwrap_or(get_int(storage', ChannelKey("uc-stored-timestamp", uc.name)), 0)
                     >= unwrap_or(get_int(storage, ChannelKey("uc-stored-timestamp", uc.name)), 0)
              /\ get_string(storage', ChannelKey("rulesets", uc.name))
                         # get_string(storage, ChannelKey("rulesets", uc.name))
                     => BundleTimestampIn(storage', uc) > BundleTimestampIn(storage, uc)
              /\ get_bytes(storage', ChannelKey("bloom", uc.name))
                         # get_bytes(storage, ChannelKey("bloom", uc.name))
                     => BloomTimestampIn(storage', uc) > BloomTimestampIn(storage, uc)
              /\ (/\ get_int(storage', ChannelKey("uc-stored-timestamp", uc.name)) # None
                  /\ get_int(storage', ChannelKey("uc-timestamp", uc.name)) # None)
                     => get_int(storage', ChannelKey("uc-stored-timestamp", uc.name))[1]
                            <= get_int(storage', ChannelKey("uc-timestamp", uc.name))[1]]_vars

\* the second tick replaced the bundle, or the filter, that the first
\* tick stored
C25_Witness ==
    /\ Checked
    /\ \E uc \in Channels :
           /\ Completed(uc)
           /\ IntBefore("uc-stored-timestamp", uc) > 0
           /\ \/ BundleTimestampIn(tick.before, uc) > 0 /\ ~SameRulesets(uc)
              \/ BloomTimestampIn(tick.before, uc) > 0 /\ ~SameBloom(uc)

\* C26: the rulesets that an ingestion adds have default_state true unless
\* default_off is a string other than "user rule", or platform is a string
\* other than "mixedcontent", or platform is "mixedcontent" with mixed
\* content rulesets disabled; active is the entry of the name in the map
\* of active states when there is one, and default_state otherwise.
C26_DefaultStateAndActive ==
    [][IngestStep =>
          \A host \in DOMAIN rulesets' :
              [i \in DOMAIN AddedUnder(host) |->
                  <<AddedUnder(host)[i].default_state, AddedUnder(host)[i].active>>]
                  = [i \in DOMAIN SelectSeq(GivenJson,
                                            LAMBDA object : Lists(object, host)) |->
                        <<DefaultStateOf(SelectSeq(GivenJson,
                              LAMBDA object : Lists(object, host))[i]),
                          ActiveOf(SelectSeq(GivenJson,
                              LAMBDA object : Lists(object, host))[i])>>]]_vars

\* a ruleset with default_off "user rule" is on by default, one for the
\* platform "mixedcontent" is off when mixed content is disabled, and the
\* map of active states overrides a default
C26_Witness ==
    /\ last.op = "add_all_from_serde_value"
    /\ IngestTargetA \in DOMAIN rulesets
    /\ Len(rulesets[IngestTargetA]) = 2
    /\ rulesets[IngestTargetA][1].note
           = Some([default_off |-> Some("user rule"), platform |-> None])
    /\ rulesets[IngestTargetA][1].default_state
    /\ ~rulesets[IngestTargetA][1].active
    /\ rulesets[IngestTargetA][2].note
           = Some([default_off |-> None, platform |-> Some("mixedcontent")])
    /\ ~rulesets[IngestTargetA][2].default_state
    /\ rulesets[IngestTargetA][2].active

\* C27: an ingestion leaves what the index held in place and in order,
\* appends under each target of each named object one and the same ruleset
\* of that name, in the order of the objects, and adds nothing for an
\* object without a name.
C27_IngestionAppends ==
    [][IngestStep =>
          /\ DOMAIN rulesets' = DOMAIN rulesets \cup ListedTargets
          /\ \A host \in DOMAIN rulesets :
                 SubSeq(rulesets'[host], 1, Len(rulesets[host])) = rulesets[host]
          /\ \A host \in DOMAIN rulesets' :
                 Len(AddedUnder(host))
                     = Cardinality({j \in DOMAIN GivenJson :
                                       Lists(GivenJson[j], host)})
          /\ \A j \in DOMAIN GivenJson :
                 \A host \in ListedTargets :
                     Lists(GivenJson[j], host)
                         => /\ EntryFor(j, host).name = GivenJson[j].name[1]
                            /\ \A other \in ListedTargets :
                                   Lists(GivenJson[j], other)
                                       => EntryFor(j, other) = EntryFor(j, host)]_vars

\* a ruleset with two targets was appended under a target that held
\* another ruleset, by a call that also gave an object without a name
C27_Witness ==
    /\ last.op = "add_all_from_serde_value"
    /\ Len(last.input.json) = 2
    /\ last.input.json[1].name = None
    /\ last.input.json[2].name = Some("b")
    /\ IngestTargetA \in DOMAIN rulesets
    /\ IngestTargetB \in DOMAIN rulesets
    /\ Len(rulesets[IngestTargetA]) = 2
    /\ rulesets[IngestTargetA][1].name = "a"
    /\ rulesets[IngestTargetA][2] = rulesets[IngestTargetB][1]

\* C28: constructing a channel from a descriptor that has no name, no
\* update_path_prefix or no pem, or whose pem is not a public key, panics
\* and yields no channel; a construction from a descriptor whose scope is
\* empty or absent yields a channel with scope None.
C28_ChannelConstruction ==
    last.op = "UpdateChannel_from" =>
        /\ (\/ last.input.json_value.name = None
            \/ last.input.json_value.update_path_prefix = None
            \/ last.input.json_value.pem = None
            \/ /\ IsString(last.input.json_value.pem)
               /\ public_key_from_pem(last.input.json_value.pem[1].value) = None)
               => last.ret.panic /\ last.ret.channel = None
        /\ (/\ ~last.ret.panic
            /\ last.input.json_value.scope \in {None, Some(JsonString(""))})
               => last.ret.channel # None /\ last.ret.channel[1].scope = None

\* a descriptor that is complete but for its update_path_prefix panicked
C28_Witness ==
    /\ last.op = "UpdateChannel_from"
    /\ last.input.json_value.name = Some(JsonString("A"))
    /\ last.input.json_value.pem = Some(JsonString(PemA))
    /\ last.input.json_value.update_path_prefix = None
    /\ last.ret.panic
    /\ last.ret.channel = None

\* C29: the rule constructed from "^http:" and "https:" is Trivial, and the
\* rule constructed from any other pair is NonTrivial with that pair.
C29_TrivialOnlyForThePair ==
    [][IngestStep =>
          \A j \in DOMAIN GivenJson :
              \A host \in ListedTargets :
                  Lists(GivenJson[j], host) /\ GivenJson[j].rule # None
                      => EntryFor(j, host).rules
                            = [i \in DOMAIN GivenJson[j].rule[1] |->
                                  IF /\ GivenJson[j].rule[1][i].from = TRIVIAL_REGEX
                                     /\ GivenJson[j].rule[1][i].to = TRIVIAL_TO
                                  THEN [kind |-> "Trivial", from |-> None, to |-> None]
                                  ELSE [kind |-> "NonTrivial",
                                        from |-> Some(GivenJson[j].rule[1][i].from),
                                        to |-> Some(GivenJson[j].rule[1][i].to)]]]_vars

\* "^http:" with another replacement made a NonTrivial rule, next to a
\* Trivial one
C29_Witness ==
    /\ last.op = "add_all_from_serde_value"
    /\ last.input.json[1].rule
           = Some(<<JsonRule(TRIVIAL_REGEX, Replacement("http", None)),
                    JsonRule(TRIVIAL_REGEX, TRIVIAL_TO)>>)
    /\ IngestTargetA \in DOMAIN rulesets
    /\ Len(rulesets[IngestTargetA]) = 1
    /\ rulesets[IngestTargetA][1].rules[1].kind = "NonTrivial"
    /\ rulesets[IngestTargetA][1].rules[1].to = Some(Replacement("http", None))
    /\ rulesets[IngestTargetA][1].rules[2].kind = "Trivial"

\* C30: a tick writes payload data of a channel only after the probe, the
\* download and the verification of the signature over the payload, and
\* writes 'uc-stored-timestamp' of a channel only after it persisted the
\* payload with that timestamp.
C30_StepsInOrder ==
    Checked =>
        \A uc \in Channels :
            /\ PayloadWritten(uc)
                   => Attempted(uc) /\ Downloaded(uc) /\ SignatureVerifies(uc)
            /\ ~SameInt("uc-stored-timestamp", uc)
                   => /\ PayloadWritten(uc)
                      /\ PayloadStoredAt(uc,
                             get_int(storage,
                                     ChannelKey("uc-stored-timestamp", uc.name))[1])

\* C31: when the update of a channel fails in a tick, every other channel
\* whose server offers a newer, well-signed and well-formed payload in that
\* tick is probed and its payload persisted in that tick.
C31_FailureIsContained ==
    Checked =>
        \A uc \in Channels, other \in Channels :
            (uc # other /\ Failed(uc) /\ Completed(other)) => Persisted(other)

\* C32: a call returns RedirectLoopWarning only if its action is RewriteUrl
\* and at least 8 of the last 15 recorded calls, itself included, were for
\* its URL with that action; a call whose action is NoOp or CancelRequest
\* returns that action.
C32_WarningOnlyForRewrites ==
    CalledAndRecorded =>
        /\ last.ret = Some(RedirectLoopWarning)
               => /\ Recorded.action.kind = "RewriteUrl"
                  /\ Cardinality(SameInWindow) >= 8
        /\ Recorded.action \in {NoOp, CancelRequest}
               => last.ret = Some(Recorded.action)

\* C33 as stated: a mutex is locked by a thread that holds another one
\* only in the rebuild of the updater, where the Storage mutex is locked
\* under the RuleSets mutex.
C33_OneNestingOnly ==
    Locked =>
        \/ last.input.held = <<>>
        \/ /\ last.input.thread = "updater"
           /\ last.input.lock = "Storage"
           /\ \E i \in DOMAIN last.input.held : last.input.held[i] = "RuleSets"

\* C33, amended: a mutex is locked by a thread that holds another one only
\* when the Storage mutex is locked under the Settings mutex (the accessors
\* of Settings, in rewrite_url and in the embedding program), and in the
\* rebuild of the updater, where the Blooms mutex is locked under the
\* RuleSets mutex and the Storage mutex under both.
C33_NestingIsLimited ==
    Locked =>
        \/ last.input.held = <<>>
        \/ /\ last.input.thread \in {"rewriter", "embedder"}
           /\ last.input.lock = "Storage"
           /\ last.input.held = <<"Settings">>
        \/ /\ last.input.thread = "updater"
           /\ last.input.lock = "Blooms"
           /\ last.input.held = <<"RuleSets">>
        \/ /\ last.input.thread = "updater"
           /\ last.input.lock = "Storage"
           /\ last.input.held = <<"RuleSets", "Blooms">>

\* bloom_closure locked the store under the guards rs and blooms
C33_Witness ==
    /\ Locked
    /\ last.input.thread = "updater"
    /\ last.input.lock = "Storage"
    /\ last.input.held = <<"RuleSets", "Blooms">>
    /\ threads.pc["updater"] = "bloom_closure"

\* C34: a call of rewrite_url or should_secure_cookie that evaluates the
\* scopes, exclusions and rules of its candidates holds no mutex, and holds
\* the RuleSets mutex only to materialise the candidates.
C34_NoGuardDuringRegexWork ==
    \A thread \in {"rewriter", "cookies"} :
        /\ threads.pc[thread] = "regex" => threads.held[thread] = <<>>
        /\ threads.owner["RuleSets"] = thread
               => threads.pc[thread] = "materialise"

\* C35: when a call of rewrite_url is over, the values it read for
\* global_enabled and http_nowhere_on and its candidates were all current
\* at one instant of the call.
C35_ReadsOfOneMoment ==
    threads.pc["rewriter"] = "done" =>
        \E moment \in threads.moments :
            /\ threads.used.global_enabled
                   \in {None, moment.global_enabled}
            /\ threads.used.http_nowhere_on
                   \in {None, moment.http_nowhere_on}
            /\ threads.used.candidates \in {None, moment.candidates}

\* C36: as long as a thread has not returned, some thread can take a step;
\* a thread locks no mutex that it holds, and locks a mutex only under
\* mutexes that come before it in the order Settings, RuleSets, Blooms,
\* Storage.
C36_NoDeadlock ==
    /\ (\E thread \in ThreadNames : threads.pc[thread] # "done")
           => \E thread \in ThreadNames :
                  threads.pc[thread] # "done" /\ ~Blocked(thread)
    /\ Locked =>
           \A i \in DOMAIN last.input.held :
               Rank(last.input.held[i]) < Rank(last.input.lock)

\* rewrite_url and a setter wait for mutexes that the rebuild holds
C36_Witness ==
    /\ threads.pc["updater"] = "bloom_closure"
    /\ threads.pc["rewriter"] = "candidates"
    /\ threads.pc["embedder"] = "set_settings"
    /\ Blocked("rewriter")
    /\ Blocked("embedder")

\* C37: when an earlier tick probed the timestamp T of a channel and failed
\* to store its payload ('uc-timestamp' is T, 'uc-stored-timestamp' is
\* less), a tick in which the server still announces T and serves the
\* well-signed payload of T stores that payload.
C37_FailedUpdateIsRetried ==
    (Checked /\ ~tick.panicked) =>
        \A uc \in Channels :
            \A ts \in Timestamps :
                (/\ IntBefore("uc-timestamp", uc) = ts
                 /\ IntBefore("uc-stored-timestamp", uc) < ts
                 /\ tick.remotes[uc.name] = GoodRemote(uc, ts)
                 /\ ~BundledIsNewer(uc))
                    => /\ get_int(storage, ChannelKey("uc-stored-timestamp", uc.name))
                              = Some(ts)
                       /\ PayloadStoredAt(uc, ts)

\* C38: a call of should_secure_cookie returns what a Rewriter with an
\* empty cache returns for the same domain and name on the index as it is
\* at the call.
C38_CacheIsTransparent ==
    CookieAsked =>
        last.ret
            = Some(Secure(secure_after_lookup(
                              rulesets,
                              lru_get(<<>>, trim_start_dots(last.input.domain)),
                              trim_start_dots(last.input.domain),
                              last.input.name).ret))

\* C39: clear_replacement_update_channels leaves no timestamp above 0
\* under 'uc-timestamp' and 'uc-stored-timestamp' of a channel that
\* replaces the default rulesets; in the tick after it, a server that
\* announces the timestamp that was stored for such a channel, not older
\* than the bundled rulesets, and serves its well-signed bundle has that
\* bundle stored again.
C39_ClearedChannelIsInstalledAgain ==
    [][/\ (ClearStep /\ ~tick.poisoned) =>
              \A uc \in Channels :
                  uc.replaces_default_rulesets
                      => /\ get_int(storage', ChannelKey("uc-timestamp", uc.name))
                                \in {None, Some(0)}
                         /\ get_int(storage',
                                    ChannelKey("uc-stored-timestamp", uc.name))
                                \in {None, Some(0)}
       /\ TickAfterClear =>
              \A uc \in Channels :
                  \A ts \in Timestamps :
                      (/\ uc.replaces_default_rulesets
                       /\ get_int(storage,
                                  ChannelKey("uc-stored-timestamp", uc.name))
                              = Some(ts)
                       /\ tick'.remotes[uc.name] = GoodRemote(uc, ts)
                       /\ unwrap_or(get_int(storage, Key("extension-timestamp")), 0)
                              <= ts)
                          => get_string(storage', ChannelKey("rulesets", uc.name))
                                 = read_to_string(GoodBundle(ts))]_vars

\* C40: time_to_next_check returns max(0, periodicity - (now -
\* last_checked)), last_checked being 0 when absent, for every stored
\* 'last-checked' and every reading of the clock: it does not panic, the
\* result is within 0..periodicity, and right after perform_check, at the
\* same reading of the clock, it is the periodicity.
C40_TimeToNextCheck ==
    last.op = "time_to_next_check" =>
        /\ ~last.ret.panic
        /\ last.ret.value
               = Some(max(0, updater.periodicity
                                - (last.input.now
                                     - unwrap_or(last.input.last_checked, 0))))
        /\ last.ret.value[1] \in 0..updater.periodicity
        /\ last.input.after_check => last.ret.value = Some(updater.periodicity)

====
